---- MODULE Spec2Model ----
(***************************************************************************)
(* A state-machine model of the smellywaterv3 client: the remote data      *)
(* gateway (src/lib/supabase.ts) over the collection_items and collections *)
(* tables, the add-to-collection flow of PerfumeDetails, the batch delete  *)
(* of CollectionDetails, the profile screen's auth listener and collection *)
(* loading, and the debounced search of SearchScreen / SearchContext.      *)
(*                                                                         *)
(* A remote call on a table the client writes is three steps: the client  *)
(* issues the request, the backend serves it (one transaction on the       *)
(* tables), and the client resumes the awaiting flow with the response.    *)
(* A read of the perfumes catalogue, which no step writes, is two: the     *)
(* request, and the response with which the flow resumes.  Other steps     *)
(* interleave freely between them.                                         *)
(***************************************************************************)
EXTENDS Integers, Sequences, FiniteSets, Bags, TLC

\* ---------------------------------------------------------------- bounds
\* Concurrent callers of addPerfumeToCollection (screens / devices).
NumCallers == 2
\* Total number of addPerfumeToCollection calls in one behaviour.
MaxAdds == 3
\* Rows of the collection shown by the CollectionDetails screen.
NumItems == 2
\* removePerfumeFromCollection calls made by the CollectionDetails screen.
MaxDeletes == 2
\* loadCollectionItems runs of the screen (the mount's one included).
MaxLoads == 2
\* Events the auth provider delivers to the profile screen's listener.
MaxAuthEvents == 2
\* onChangeSearch events of the search screen.
MaxInputs == 3
\* searchPerfumes requests sent in one behaviour.
MaxSearches == 2
\* Clock steps per debounce window.
TicksPerWindow == 2
\* Presses of the profile form's Save button.
MaxSaves == 2
\* Rows of collection_items when getUserCollections runs.
MaxListedItems == 5
\* Items of the list sortItems sorts.
MaxSortItems == 3
\* refreshRandom invocations (Refresh button, pull-to-refresh).
MaxRefreshes == 2
\* handleCreateCollection calls.
MaxCreates == 2
\* Gestures made on App (tab presses, selections, backs).
MaxGestures == 5

\* ---------------------------------------------------------------- constants
\* The delay of the debounce timer, in milliseconds.
DebounceMs == 300
\* The lengths validateUsername allows, and the ages handleSaveProfile does.
MinUsernameLength == 3
MaxUsernameLength == 20
MinAge == 13
MaxAge == 120
\* The number of sample images getUserCollections takes.
SampleSize == 4

\* ------------------------------------------------------------ identifiers
CollectionIds == {1, 2}
PerfumeIds == {"p1"}
Callers == 1..NumCallers

VARIABLES
  collection_items,  \* the collection_items table: a set of rows
  nextItemId,        \* the backend's id / created_at generator for rows
  addCall,           \* per caller: the addPerfumeToCollection call in flight
  adds,              \* number of addPerfumeToCollection calls started
  addLog,            \* the calls that returned, in order of return
  listed,            \* the last getCollectionItems: its collection, its
                     \* rows, and how many add calls had returned before it
  \* CollectionDetails screen
  items,             \* useState: the local list of membership rows
  selectedItems,     \* useState: Set of selected row ids
  isModifyMode,      \* useState
  loadingDetails,    \* useState `loading` of CollectionDetails
  dialog,            \* the 'Delete Items' Alert and the closure it captured
  batches,           \* the confirmed batch deletes, in order of confirmation
  loadFlow,          \* the loadCollectionItems run in flight
  loads,             \* number of loadCollectionItems runs started
  \* ProfileScreen
  session,           \* the auth provider's current identity, or NullUser
  user,              \* useState
  loading,           \* useState
  needsProfileCompletion, \* useState (profile.tsx)
  userProfile,       \* useState (profile.tsx)
  collections,       \* useState
  flows,             \* the async flows of the screen in flight: a bag
  authEvents,        \* number of auth events delivered
  lastLoad,          \* the loadUserCollections run that ended last
  focused,           \* the profile screen is the focused screen
  user_profiles,     \* the user_profiles table: the ids that have a row
  collectionsTable,  \* the collections table
  nextCollectionId,  \* the backend's id / created_at generator for it
  \* SearchProvider / SearchScreen
  perfumes,          \* useState: the baseline random sample
  results,           \* useState: the search results
  searchQuery,       \* useState: the text of the search field
  searchLoading,     \* useState `loading` of SearchProvider
  refreshing,        \* useState
  searching,         \* useState
  initializedRef,    \* useRef
  debounceRef,       \* useRef: the id of the last timer set, 0 for null
  timers,            \* the pending setTimeout timers: id, text, ms left
  inputs,            \* number of onChangeSearch events
  sinceInput,        \* ms since the last onChangeSearch, up to DebounceMs
  burst,             \* the current run of inputs less than DebounceMs apart
                     \* and the performSearch calls its timers have made
  searchCalls,       \* the searchPerfumes requests in flight
  issued,            \* number of searchPerfumes requests sent
  resolved,          \* the request whose response was applied last, and
                     \* the latest-issued request among those applied
  callParity,        \* the parity of the number of performSearch calls
  randomFlow,        \* the number of loadRandom runs awaiting their fetch
  fetches,           \* number of getRandomPerfumes requests sent
  refreshes,         \* number of refreshRandom invocations
  editedProfile,     \* the profile form's username, age and country texts
  isEditing,
  usernameError,
  showProfileDetails,
  profileDetails,    \* userProfile's username, age and country
  profileRows,       \* the user_profiles table's rows, by id
  saveFlow,          \* the handleSaveProfile run in flight
  saves,             \* the number of Save presses so far
  joinCollections,   \* the collections rows getUserCollections queries
  joinItems,         \* the collection_items rows it joins, in row order
  listing,           \* what the last getUserCollections returned
  itemsToSort,       \* the items of the collection screen that are sorted
  sortBy,
  sortedItems,
  showNewCollectionModal,
  newCollectionName,        \* the drafts of the Create Collection form
  newCollectionDescription,
  createFlow,        \* the handleCreateCollection run in flight
  creates,           \* number of handleCreateCollection calls
  \* App
  activeTab,
  selectedPerfumeId,
  selectedCollection,
  screens            \* the screens App has rendered, one per gesture

tableVars == <<collection_items, nextItemId>>
addVars == <<addCall, adds, addLog, listed>>
detVars == <<items, selectedItems, isModifyMode, loadingDetails, dialog,
             batches, loadFlow, loads>>
profTables == <<user_profiles, collectionsTable, nextCollectionId>>
profVars == <<session, user, loading, needsProfileCompletion, userProfile,
              collections, flows, authEvents, lastLoad, focused, profTables>>
searchState == <<perfumes, results, searchQuery, searchLoading, refreshing,
                 searching, initializedRef>>
searchVars == <<searchState, debounceRef, timers, inputs, sinceInput, burst,
                searchCalls, issued, resolved, callParity, randomFlow,
                fetches, refreshes>>
editVars == <<editedProfile, isEditing, usernameError, showProfileDetails,
              profileDetails, profileRows, saveFlow, saves>>
listVars == <<joinCollections, joinItems, listing>>
sortVars == <<itemsToSort, sortBy, sortedItems>>
createVars == <<showNewCollectionModal, newCollectionName,
                newCollectionDescription, createFlow, creates>>
navVars == <<activeTab, selectedPerfumeId, selectedCollection, screens>>
vars == <<tableVars, addVars, detVars, profVars, searchVars, editVars,
          listVars, sortVars, createVars, navVars>>

\* What the steps of one component leave alone.
pureVars == <<listVars, sortVars, createVars, navVars>>
AddFrame == UNCHANGED <<detVars, profVars, searchVars, editVars, pureVars>>
DetFrame == UNCHANGED <<addVars, profVars, searchVars, editVars, pureVars>>
ProfFrame ==
  UNCHANGED <<tableVars, addVars, detVars, searchVars, focused, editVars,
              pureVars>>
\* The same for the steps that can end a loadUserCollections run, which
\* handleCreateCollection awaits.
LoadFrame ==
  UNCHANGED <<tableVars, addVars, detVars, searchVars, focused, editVars,
              listVars, sortVars, navVars>>
SearchFrame ==
  UNCHANGED <<tableVars, addVars, detVars, profVars, editVars, pureVars>>
EditFrame ==
  UNCHANGED <<tableVars, addVars, detVars, profVars, searchVars, pureVars>>

\* ----------------------------------------------------------------- helpers
\* The rows of a (collection_id, perfume_id) pair.
RowsOf(rows, cid, pid) ==
  {r \in rows : r.collection_id = cid /\ r.perfume_id = pid}

\* supabase-js .single(): the row when the query matches exactly one row,
\* otherwise no data and the error code PGRST116 (zero rows, or several).
Single(rows) ==
  IF Cardinality(rows) = 1
    THEN [data |-> rows, code |-> "none"]
    ELSE [data |-> {}, code |-> "PGRST116"]

\* A set of rows as a sequence, newest first (order('created_at', desc)).
RECURSIVE NewestFirst(_)
NewestFirst(rows) ==
  IF rows = {} THEN <<>>
  ELSE LET top == CHOOSE r \in rows : \A q \in rows : q.id <= r.id
       IN <<top>> \o NewestFirst(rows \ {top})

IdleCall == [pc |-> "idle", collection_id |-> 0, perfume_id |-> "",
             existing |-> {}, checkCode |-> "none", insertCode |-> "none",
             seen |-> 0]

NeverListed == [collection_id |-> 0, rows |-> <<>>, after |-> 0]

\* --------------------------------------------------- addPerfumeToCollection
\* handleSelectCollection calls addPerfumeToCollection(item): the pre-check
\* query is sent.
AddIssue(c, cid, pid) ==
  /\ addCall[c].pc = "idle"
  /\ adds < MaxAdds
  /\ adds' = adds + 1
  /\ addCall' = [addCall EXCEPT ![c] =
       [IdleCall EXCEPT !.pc = "check_sent", !.collection_id = cid,
                        !.perfume_id = pid]]
  /\ UNCHANGED <<collection_items, nextItemId, addLog, listed>>
  /\ AddFrame

\* The backend answers the pre-check select('id').eq(..).eq(..).single(),
\* or the request fails in transport (any code other than PGRST116).
ServeCheck(c, fail) ==
  /\ addCall[c].pc = "check_sent"
  /\ LET match == RowsOf(collection_items, addCall[c].collection_id,
                         addCall[c].perfume_id)
         ans == Single(match)
     IN addCall' = [addCall EXCEPT ![c] =
          [@ EXCEPT !.pc = "check_answered",
                    !.existing = IF fail THEN {} ELSE ans.data,
                    !.checkCode = IF fail THEN "transport" ELSE ans.code,
                    !.seen = Cardinality(match)]]
  /\ UNCHANGED <<collection_items, nextItemId, adds, addLog, listed>>
  /\ AddFrame

\* AfterCheck without the duplicate test: an existing row is not noticed.
AfterCheckNoDuplicateTest(call) ==
  IF call.checkCode # "none" /\ call.checkCode # "PGRST116" THEN "error"
  ELSE "insert"

\* The call's outcome once the pre-check response is in: which error it
\* throws, or "insert" when it goes on to insert the row.
AfterCheck(call) ==
  IF call.checkCode # "none" /\ call.checkCode # "PGRST116" THEN "error"
  ELSE IF call.existing # {} THEN "duplicate"
  ELSE "insert"

Returned(c, result) ==
  /\ addLog' = Append(addLog,
       [collection_id |-> addCall[c].collection_id,
        perfume_id |-> addCall[c].perfume_id, result |-> result,
        checkCode |-> addCall[c].checkCode, seen |-> addCall[c].seen])
  /\ addCall' = [addCall EXCEPT ![c] = IdleCall]

\* The client resumes after the pre-check: throws, or sends the insert.
ResumeCheck(c) ==
  /\ addCall[c].pc = "check_answered"
  /\ IF AfterCheck(addCall[c]) = "insert"
       THEN /\ addCall' = [addCall EXCEPT ![c].pc = "insert_sent"]
            /\ UNCHANGED addLog
       ELSE Returned(c, AfterCheck(addCall[c]))
  /\ UNCHANGED <<collection_items, nextItemId, adds, listed>>
  /\ AddFrame

\* The backend serves insert([item]).select().single(): the row is added
\* (the table has no unique constraint the client relies on), or the
\* request fails and nothing is inserted.
ServeInsert(c, fail) ==
  /\ addCall[c].pc = "insert_sent"
  /\ IF fail
       THEN /\ addCall' = [addCall EXCEPT ![c] =
                 [@ EXCEPT !.pc = "insert_answered", !.insertCode = "transport"]]
            /\ UNCHANGED <<collection_items, nextItemId>>
       ELSE /\ collection_items' = collection_items \cup
                 {[id |-> nextItemId,
                   collection_id |-> addCall[c].collection_id,
                   perfume_id |-> addCall[c].perfume_id]}
            /\ nextItemId' = nextItemId + 1
            /\ addCall' = [addCall EXCEPT ![c].pc = "insert_answered"]
  /\ UNCHANGED <<adds, addLog, listed>>
  /\ AddFrame

\* The client resumes after the insert: returns the row or throws.
ResumeInsert(c) ==
  /\ addCall[c].pc = "insert_answered"
  /\ Returned(c, IF addCall[c].insertCode = "none" THEN "ok" ELSE "error")
  /\ UNCHANGED <<collection_items, nextItemId, adds, listed>>
  /\ AddFrame

\* getCollectionItems(collectionId): the collection's rows, newest first.
GetCollectionItems(cid) ==
  /\ listed' = [collection_id |-> cid,
                 rows |-> NewestFirst({r \in collection_items :
                                         r.collection_id = cid}),
                 after |-> Len(addLog)]
  /\ UNCHANGED <<collection_items, nextItemId, addCall, adds, addLog>>
  /\ AddFrame

EmptyTable ==
  /\ collection_items = {}
  /\ nextItemId = 1

AddInit ==
  /\ addCall = [c \in Callers |-> IdleCall]
  /\ adds = 0
  /\ addLog = <<>>
  /\ listed = NeverListed

\* -------------------------------------------------------- CollectionDetails
\* The collection the screen shows (its collectionId prop).
DetailsCollection == 1

PerfumeNames == <<"p1", "p2", "p3", "p4">>

\* The collection's rows when the screen mounts: NumItems distinct perfumes.
SeededTable ==
  /\ collection_items =
       {[id |-> i, collection_id |-> DetailsCollection,
         perfume_id |-> PerfumeNames[((i - 1) % Len(PerfumeNames)) + 1]] :
        i \in 1..NumItems}
  /\ nextItemId = NumItems + 1

NoDialog == [open |-> FALSE, items |-> <<>>, selectedItems |-> {}]
NoLoad == [pc |-> "none", rows |-> <<>>, failed |-> FALSE]

\* The ids of a list of rows.
IdsOf(its) == {its[k].id : k \in DOMAIN its}

\* A set of ids as a sequence (Array.from(selectedItems)).
RECURSIVE ArrayFrom(_)
ArrayFrom(ids) ==
  IF ids = {} THEN <<>>
  ELSE LET lo == CHOOSE i \in ids : \A j \in ids : i <= j
       IN <<lo>> \o ArrayFrom(ids \ {lo})

\* items.filter(item => !selectedItems.has(item.id)) that drops nothing.
FilterKeepsAll(its, sel) == its

\* items.filter(item => !selectedItems.has(item.id))
FilterOut(its, sel) == SelectSeq(its, LAMBDA r : r.id \notin sel)

\* The screen takes presses: it is not showing the loading spinner and the
\* Alert is not up.
Interactive == ~loadingDetails /\ ~dialog.open

\* The state after the first render: the mount effect has called
\* loadCollectionItems.
DetInit ==
  /\ items = <<>>
  /\ selectedItems = {}
  /\ isModifyMode = FALSE
  /\ loadingDetails = TRUE
  /\ dialog = NoDialog
  /\ batches = <<>>
  /\ loadFlow = [NoLoad EXCEPT !.pc = "sent"]
  /\ loads = 1

\* The screen is not mounted.
DetQuiet ==
  /\ items = <<>>
  /\ selectedItems = {}
  /\ isModifyMode = FALSE
  /\ loadingDetails = TRUE
  /\ dialog = NoDialog
  /\ batches = <<>>
  /\ loadFlow = NoLoad
  /\ loads = 0

\* Pull-to-refresh: loadCollectionItems sets loading and sends the queries.
LoadCollectionItems ==
  /\ Interactive
  /\ items # <<>>
  /\ loadFlow.pc = "none"
  /\ loads < MaxLoads
  /\ loads' = loads + 1
  /\ loadingDetails' = TRUE
  /\ loadFlow' = [NoLoad EXCEPT !.pc = "sent"]
  /\ UNCHANGED <<tableVars, items, selectedItems, isModifyMode, dialog, batches>>
  /\ DetFrame

\* The backend answers getCollectionItems / getCollection, or one of them
\* fails.
ServeLoad(fail) ==
  /\ loadFlow.pc = "sent"
  /\ loadFlow' =
       [pc |-> "answered",
        rows |-> IF fail THEN <<>>
                 ELSE NewestFirst({r \in collection_items :
                                     r.collection_id = DetailsCollection}),
        failed |-> fail]
  /\ UNCHANGED <<tableVars, items, selectedItems, isModifyMode, loadingDetails,
                 dialog, batches, loads>>
  /\ DetFrame

\* loadCollectionItems resumes: setItems on success, the alert on failure,
\* setLoading(false) in both.
ResumeLoad ==
  /\ loadFlow.pc = "answered"
  /\ items' = IF loadFlow.failed THEN items ELSE loadFlow.rows
  /\ loadingDetails' = FALSE
  /\ loadFlow' = NoLoad
  /\ UNCHANGED <<tableVars, selectedItems, isModifyMode, dialog, batches, loads>>
  /\ DetFrame

\* The Modify / Done button.
ModifyPress ==
  /\ Interactive
  /\ IF isModifyMode
       THEN isModifyMode' = FALSE /\ selectedItems' = {}
       ELSE isModifyMode' = TRUE /\ UNCHANGED selectedItems
  /\ UNCHANGED <<tableVars, items, loadingDetails, dialog, batches, loadFlow,
                 loads>>
  /\ DetFrame

\* toggleItemSelection's new set, the id added whether or not it is there.
ToggledOn(selection, itemId) == selection \cup {itemId}

\* toggleItemSelection's new set: the id deleted if the set has it, added
\* if not.
Toggled(selection, itemId) ==
  IF itemId \in selection THEN selection \ {itemId}
  ELSE selection \cup {itemId}

\* A card pressed in modify mode: toggleItemSelection(item.id).
ToggleItemSelection(itemId) ==
  /\ Interactive
  /\ isModifyMode
  /\ itemId \in IdsOf(items)
  /\ selectedItems' = Toggled(selectedItems, itemId)
  /\ UNCHANGED <<tableVars, items, isModifyMode, loadingDetails, dialog,
                 batches, loadFlow, loads>>
  /\ DetFrame

\* The number of removePerfumeFromCollection calls of a list of batches.
RECURSIVE CallsIn(_)
CallsIn(bs) ==
  IF bs = <<>> THEN 0 ELSE Len(Head(bs).calls) + CallsIn(Tail(bs))

\* The 'Delete N items' button: handleDeleteSelected shows the Alert, whose
\* Delete handler closes over this render's items and selectedItems.
HandleDeleteSelected ==
  /\ Interactive
  /\ isModifyMode
  /\ selectedItems # {}
  /\ CallsIn(batches) + Cardinality(selectedItems) <= MaxDeletes
  /\ dialog' = [open |-> TRUE, items |-> items, selectedItems |-> selectedItems]
  /\ UNCHANGED <<tableVars, items, selectedItems, isModifyMode, loadingDetails,
                 batches, loadFlow, loads>>
  /\ DetFrame

\* The Alert's Cancel option.
DialogCancel ==
  /\ dialog.open
  /\ dialog' = NoDialog
  /\ UNCHANGED <<tableVars, items, selectedItems, isModifyMode, loadingDetails,
                 batches, loadFlow, loads>>
  /\ DetFrame

\* The Alert's Delete option: one removePerfumeFromCollection call per
\* selected id, all sent before Promise.all is awaited.
DialogDelete ==
  /\ dialog.open
  /\ dialog' = NoDialog
  /\ batches' = Append(batches,
       [selected |-> dialog.selectedItems,
        items |-> dialog.items,
        calls |-> ArrayFrom(dialog.selectedItems),
        req |-> [i \in dialog.selectedItems |-> "sent"],
        outcome |-> "pending"])
  /\ UNCHANGED <<tableVars, items, selectedItems, isModifyMode, loadingDetails,
                 loadFlow, loads>>
  /\ DetFrame

\* The backend serves one delete().eq('id', itemId): the row goes (deleting
\* a row that is already gone is no error), or the request fails.
ServeDelete(b, itemId, fail) ==
  /\ b \in DOMAIN batches
  /\ itemId \in DOMAIN batches[b].req
  /\ batches[b].req[itemId] = "sent"
  /\ IF fail
       THEN /\ batches' = [batches EXCEPT ![b].req[itemId] = "failed"]
            /\ UNCHANGED collection_items
       ELSE /\ batches' = [batches EXCEPT ![b].req[itemId] = "deleted"]
            /\ collection_items' = {r \in collection_items : r.id # itemId}
  /\ UNCHANGED <<nextItemId, items, selectedItems, isModifyMode, loadingDetails,
                 dialog, loadFlow, loads>>
  /\ DetFrame

\* Promise.all over a batch's requests: rejected by the first rejection,
\* fulfilled when every request has resolved.
PromiseAll(outcome, req) ==
  IF outcome # "pending" THEN outcome
  ELSE IF \E i \in DOMAIN req : req[i] = "rejected" THEN "rejected"
  ELSE IF \A i \in DOMAIN req : req[i] = "resolved" THEN "success"
  ELSE "pending"

\* The try block after await Promise.all: the local update.
ApplySuccess(b) ==
  /\ items' = FilterOut(batches[b].items, batches[b].selected)
  /\ selectedItems' = {}
  /\ isModifyMode' = FALSE

\* A catch block that removes the selected items all the same.
ApplyFailureOptimistic(b) ==
  /\ items' = FilterOut(batches[b].items, batches[b].selected)
  /\ selectedItems' = {}
  /\ isModifyMode' = FALSE

\* The catch block: the error is logged and alerted, no state is set.
ApplyFailure(b) ==
  UNCHANGED <<items, selectedItems, isModifyMode>>

\* One delete response reaches the client: its promise settles, and with it
\* Promise.all may settle and the handler resume.
SettleDelete(b, itemId) ==
  /\ b \in DOMAIN batches
  /\ itemId \in DOMAIN batches[b].req
  /\ batches[b].req[itemId] \in {"deleted", "failed"}
  /\ LET req2 == [batches[b].req EXCEPT ![itemId] =
                    IF @ = "deleted" THEN "resolved" ELSE "rejected"]
         out2 == PromiseAll(batches[b].outcome, req2)
     IN /\ batches' = [batches EXCEPT ![b].req = req2, ![b].outcome = out2]
        /\ IF batches[b].outcome = "pending" /\ out2 = "success"
             THEN ApplySuccess(b)
           ELSE IF batches[b].outcome = "pending" /\ out2 = "rejected"
             THEN ApplyFailure(b)
           ELSE UNCHANGED <<items, selectedItems, isModifyMode>>
  /\ UNCHANGED <<tableVars, loadingDetails, dialog, loadFlow, loads>>
  /\ DetFrame

DetNext ==
  \/ LoadCollectionItems
  \/ \E fail \in BOOLEAN : ServeLoad(fail)
  \/ ResumeLoad
  \/ ModifyPress
  \/ \E i \in 1..NumItems : ToggleItemSelection(i)
  \/ HandleDeleteSelected
  \/ DialogCancel
  \/ DialogDelete
  \/ \E b \in 1..MaxDeletes, i \in 1..NumItems, fail \in BOOLEAN :
       ServeDelete(b, i, fail)
  \/ \E b \in 1..MaxDeletes, i \in 1..NumItems : SettleDelete(b, i)

\* ------------------------------------------------------------ ProfileScreen
Identities == {"A", "B"}
NullUser == "null"
NullProfile == [id |-> NullUser]

IdleFlow == [kind |-> "none", pc |-> "none", user |-> NullUser, found |-> FALSE,
             ok |-> TRUE, rows |-> <<>>, listed |-> "none", fallback |-> FALSE,
             inserted |-> {}]

NoLoadYet == [user |-> NullUser, listed |-> "none", ok |-> TRUE, inserted |-> {}]

\* A new flow of the given kind, its first request sent.
StartFlow(kind, pc, u) == [IdleFlow EXCEPT !.kind = kind, !.pc = pc, !.user = u]

\* createDefaultCollections that inserts 'My Collection' only.
OnlyMyCollection(userId) ==
  <<[user_id |-> userId, name |-> "My Collection", is_default |-> TRUE]>>

\* The rows createDefaultCollections inserts.
DefaultCollections(userId) ==
  <<[user_id |-> userId, name |-> "My Collection", is_default |-> TRUE],
    [user_id |-> userId, name |-> "Wishlist", is_default |-> TRUE]>>

\* The rows of a table after insert(records), ids given in order from `next`.
Inserted(records, next) ==
  {[id |-> next + k - 1, user_id |-> records[k].user_id,
    name |-> records[k].name, is_default |-> records[k].is_default] :
   k \in DOMAIN records}

\* getUserCollections' map: a collections row with its derived item_count.
WithCount(row, memberships) ==
  [id |-> row.id, user_id |-> row.user_id, name |-> row.name,
   is_default |-> row.is_default,
   item_count |-> Cardinality({m \in memberships : m.collection_id = row.id})]

\* order('is_default', desc).order('created_at', asc)
ComesBefore(r, q) ==
  \/ r.is_default /\ ~q.is_default
  \/ r.is_default = q.is_default /\ r.id <= q.id

RECURSIVE OrderCollections(_)
OrderCollections(rows) ==
  IF rows = {} THEN <<>>
  ELSE LET first == CHOOSE r \in rows : \A q \in rows : ComesBefore(r, q)
       IN <<first>> \o OrderCollections(rows \ {first})

\* What getUserCollections(userId) returns on the current tables.
UserCollections(userId) ==
  LET ordered == OrderCollections({r \in collectionsTable : r.user_id = userId})
  IN [k \in DOMAIN ordered |-> WithCount(ordered[k], collection_items)]

\* What createDefaultCollections returns: the inserted rows, item_count 0.
AsCreated(records, next) ==
  [k \in DOMAIN records |->
     [id |-> next + k - 1, user_id |-> records[k].user_id,
      name |-> records[k].name, is_default |-> records[k].is_default,
      item_count |-> 0]]

\* The auth provider's transitions: sign-in, sign-out, and a re-delivery of
\* the session it holds (INITIAL_SESSION, TOKEN_REFRESHED).
AuthTransition(currentUser) ==
  \/ session = NullUser
  \/ currentUser = NullUser
  \/ currentUser = session

\* Flow f goes on as rec; flow f is over; a new flow starts.
SetFlow(f, rec) == flows' = (flows (-) SetToBag({f})) (+) SetToBag({rec})
EndFlow(f) == flows' = flows (-) SetToBag({f})
NewFlow(rec) == flows' = flows (+) SetToBag({rec})
InFlight == BagToSet(flows)

\* What ProfileScreen of profile.tsx renders.
View ==
  IF loading THEN "loading"
  ELSE IF user = NullUser THEN "signin"
  ELSE IF needsProfileCompletion THEN "completion"
  ELSE "profile"

\* profile.tsx's useFocusEffect callback, run while the screen is focused
\* after a render in which one of its dependencies (user,
\* needsProfileCompletion, loading) has changed: refreshCollections() when a
\* user is signed in, no profile completion is pending and the screen is
\* not loading.
FocusRefresh ==
  IF /\ focused
     /\ <<user', needsProfileCompletion', loading'>>
          # <<user, needsProfileCompletion, loading>>
     /\ user' # NullUser
     /\ ~needsProfileCompletion'
     /\ ~loading'
    THEN SetToBag({StartFlow("load", "list_sent", user')})
    ELSE EmptyBag

\* The same three, in a step of profile.tsx that sets state: the render that
\* follows runs the focus effect.
GoOn(f, rec) ==
  flows' = ((flows (-) SetToBag({f})) (+) SetToBag({rec})) (+) FocusRefresh
Over(f) == flows' = (flows (-) SetToBag({f})) (+) FocusRefresh
Begin(rec) == flows' = (flows (+) SetToBag({rec})) (+) FocusRefresh
Rerender == flows' = flows (+) FocusRefresh

\* The state after the first render: supabase.auth.getUser() is in flight
\* and the listener is registered.
ProfInit ==
  /\ session \in Identities \cup {NullUser}
  /\ user = NullUser
  /\ loading = TRUE
  /\ needsProfileCompletion = FALSE
  /\ userProfile = NullProfile
  /\ collections = <<>>
  /\ flows = SetToBag({StartFlow("getUser", "getUser_sent", NullUser)})
  /\ authEvents = 0
  /\ lastLoad = NoLoadYet
  /\ user_profiles \in SUBSET Identities
  /\ \E owners \in SUBSET Identities :
       /\ collectionsTable =
            UNION {Inserted(DefaultCollections(u), IF u = "A" THEN 1 ELSE 3) :
                   u \in owners}
       /\ nextCollectionId = 5

\* The screen is not mounted.
ProfQuiet ==
  /\ session = NullUser
  /\ user = NullUser
  /\ loading = TRUE
  /\ needsProfileCompletion = FALSE
  /\ userProfile = NullProfile
  /\ collections = <<>>
  /\ flows = EmptyBag
  /\ authEvents = 0
  /\ lastLoad = NoLoadYet
  /\ focused = FALSE
  /\ user_profiles = {}
  /\ collectionsTable = {}
  /\ nextCollectionId = 1

\* The auth provider answers getUser(): the session's user, or none when
\* the request fails.
ServeGetUser(f, fail) ==
  /\ f \in InFlight
  /\ f.pc = "getUser_sent"
  /\ SetFlow(f, [f EXCEPT !.pc = "getUser_answered",
                                 !.ok = ~fail,
                                 !.user = IF fail THEN NullUser ELSE session])
  /\ UNCHANGED <<session, user, loading, needsProfileCompletion, userProfile,
                 collections, authEvents, profTables>>
  /\ UNCHANGED lastLoad
  /\ ProfFrame

\* The .then of getUser() without its setLoading(false).
LoadingKept(u) == loading

\* The .then of getUser(): setLoading(false) when there is no user.
LoadingAfterGetUser(u) == IF u # NullUser THEN loading ELSE FALSE

\* profile.tsx, the .then of getUser(): setUser, then checkProfileCompletion
\* or setLoading(false).
ResumeGetUser(f) ==
  /\ f \in InFlight
  /\ f.pc = "getUser_answered"
  /\ user' = f.user
  /\ loading' = LoadingAfterGetUser(f.user)
  /\ UNCHANGED <<session, needsProfileCompletion, userProfile, collections,
                 authEvents, profTables>>
  /\ UNCHANGED lastLoad
  /\ IF f.user # NullUser
       THEN GoOn(f, StartFlow("check", "profile_sent", f.user))
       ELSE Over(f)
  /\ ProfFrame

\* profile.tsx, the onAuthStateChange callback.
AuthStateChange(currentUser) ==
  /\ authEvents < MaxAuthEvents
  /\ AuthTransition(currentUser)
  /\ authEvents' = authEvents + 1
  /\ session' = currentUser
  /\ user' = currentUser
  /\ loading' = IF currentUser # NullUser THEN loading ELSE FALSE
  /\ UNCHANGED <<needsProfileCompletion, userProfile, collections, profTables>>
  /\ UNCHANGED lastLoad
  /\ IF currentUser # NullUser
       THEN Begin(StartFlow("check", "profile_sent", currentUser))
       ELSE Rerender
  /\ ProfFrame

\* The backend answers getUserProfile's select().eq('id', userId).single().
ServeProfile(f, fail) ==
  /\ f \in InFlight
  /\ f.pc = "profile_sent"
  /\ SetFlow(f, [f EXCEPT !.pc = "profile_answered",
                                 !.ok = ~fail,
                                 !.found = ~fail /\ f.user \in user_profiles])
  /\ UNCHANGED <<session, user, loading, needsProfileCompletion, userProfile,
                 collections, authEvents, profTables>>
  /\ UNCHANGED lastLoad
  /\ ProfFrame

\* if (profile) that takes null for a profile.
ProfileFoundUnlessError(f) == f.ok

\* if (profile): getUserProfile returned a row (not null, and did not throw).
ProfileFound(f) == f.ok /\ f.found

\* checkProfileCompletion resumes after getUserProfile.
ResumeProfile(f) ==
  /\ f \in InFlight
  /\ f.pc = "profile_answered"
  /\ IF ProfileFound(f)
       THEN /\ userProfile' = [id |-> f.user]
            /\ needsProfileCompletion' = FALSE
            /\ UNCHANGED loading
       ELSE /\ needsProfileCompletion' = TRUE
            /\ loading' = FALSE
            /\ UNCHANGED userProfile
  /\ UNCHANGED <<session, user, collections, authEvents, profTables>>
  /\ UNCHANGED lastLoad
  /\ IF ProfileFound(f)
       THEN GoOn(f, [f EXCEPT !.pc = "list_sent"])
       ELSE Over(f)
  /\ ProfFrame

\* The backend answers getUserCollections' joined query.
ServeList(f, fail) ==
  /\ f \in InFlight
  /\ f.pc = "list_sent"
  /\ SetFlow(f, [f EXCEPT
       !.pc = "list_answered",
       !.ok = ~fail,
       !.rows = IF fail THEN <<>> ELSE UserCollections(f.user),
       !.listed = IF fail THEN "error"
                  ELSE IF UserCollections(f.user) = <<>> THEN "empty"
                  ELSE "rows"])
  /\ UNCHANGED <<session, user, loading, needsProfileCompletion, userProfile,
                 collections, authEvents, profTables>>
  /\ UNCHANGED lastLoad
  /\ ProfFrame

\* The record of a loadUserCollections run that ends.
Ended(f) == [user |-> f.user, listed |-> f.listed, ok |-> f.ok,
             inserted |-> f.inserted]

\* checkProfileCompletion that ends without setLoading(false).
FinishKeepsLoading(f) ==
  /\ lastLoad' = Ended(f)
  /\ UNCHANGED <<loading, createVars>>
  /\ Over(f)

IdleCreate == [pc |-> "idle", user |-> NullUser, name |-> <<>>,
               description |-> <<>>, ok |-> TRUE]

\* handleCreateCollection after its `await refreshCollections()`: the
\* drafts are cleared and the modal is closed.
CreateCompleted ==
  /\ newCollectionName' = <<>>
  /\ newCollectionDescription' = <<>>
  /\ showNewCollectionModal' = FALSE
  /\ createFlow' = IdleCreate
  /\ UNCHANGED creates

\* The flow is over; checkProfileCompletion ends with setLoading(false),
\* and handleCreateCollection, which awaited the run, goes on to its end
\* and its finally block.
Finish(f) ==
  /\ lastLoad' = Ended(f)
  /\ IF f.kind = "new" THEN CreateCompleted ELSE UNCHANGED createVars
  /\ IF f.kind \in {"check", "new"} THEN loading' = FALSE
     ELSE UNCHANGED loading
  /\ Over(f)

\* profile.tsx loadUserCollections resumes after getUserCollections.
ResumeList(f) ==
  /\ f \in InFlight
  /\ f.pc = "list_answered"
  /\ UNCHANGED <<session, user, needsProfileCompletion, userProfile,
                 authEvents, profTables>>
  /\ IF f.ok /\ f.rows # <<>>
       THEN /\ collections' = f.rows
            /\ Finish(f)
       ELSE /\ SetFlow(f, [f EXCEPT !.pc = "create_sent",
                                           !.fallback = ~f.ok])
            /\ UNCHANGED <<collections, loading, lastLoad, createVars>>
  /\ LoadFrame

\* The backend serves createDefaultCollections' insert(...).select(): both
\* rows in one request, or none when it fails.
ServeCreate(f, fail) ==
  /\ f \in InFlight
  /\ f.pc = "create_sent"
  /\ IF fail
       THEN /\ SetFlow(f, [f EXCEPT !.pc = "create_answered",
                                           !.ok = FALSE, !.rows = <<>>])
            /\ UNCHANGED <<collectionsTable, nextCollectionId>>
       ELSE LET records == DefaultCollections(f.user)
                new == Inserted(records, nextCollectionId)
            IN /\ collectionsTable' = collectionsTable \cup new
               /\ nextCollectionId' = nextCollectionId + Len(records)
               /\ SetFlow(f, [f EXCEPT
                    !.pc = "create_answered", !.ok = TRUE,
                    !.rows = AsCreated(records, nextCollectionId),
                    !.inserted = @ \cup {r.id : r \in new}])
  /\ UNCHANGED <<session, user, loading, needsProfileCompletion, userProfile,
                 collections, authEvents, user_profiles>>
  /\ UNCHANGED lastLoad
  /\ ProfFrame

\* The inner catch block without its setCollections([]).
CollectionsKept(current) == current

\* The inner catch block of loadUserCollections: setCollections([]).
CollectionsAfterFailedFallback(current) == <<>>

\* profile.tsx loadUserCollections resumes after createDefaultCollections:
\* in the try block a failure goes to the catch block, which creates the
\* defaults again; in the catch block a failure gives setCollections([]).
ResumeCreate(f) ==
  /\ f \in InFlight
  /\ f.pc = "create_answered"
  /\ UNCHANGED <<session, user, needsProfileCompletion, userProfile,
                 authEvents, profTables>>
  /\ IF f.ok
       THEN /\ collections' = f.rows
            /\ Finish(f)
       ELSE IF ~f.fallback
         THEN /\ SetFlow(f, [f EXCEPT !.pc = "create_sent",
                                             !.fallback = TRUE])
              /\ UNCHANGED <<collections, loading, lastLoad, createVars>>
         ELSE /\ collections' = CollectionsAfterFailedFallback(collections)
              /\ Finish(f)
  /\ LoadFrame

\* The Sign In button of the sign-in view (disabled while loading):
\* handleEmailAuth sets loading and sends signInWithPassword with the
\* credentials of identity u.
HandleEmailAuth(u) ==
  /\ View = "signin"
  /\ authEvents < MaxAuthEvents
  /\ loading' = TRUE
  /\ UNCHANGED <<session, user, needsProfileCompletion, userProfile,
                 collections, authEvents, lastLoad, profTables>>
  /\ Begin(StartFlow("signin", "signin_sent", u))
  /\ ProfFrame

\* signInWithPassword returns.  On success the auth client has stored the
\* session and called the listener (setUser, checkProfileCompletion) before
\* handleEmailAuth goes on with setUser(data.user); on an error it alerts.
\* The finally block sets loading to false.
ResumeSignIn(f, fail) ==
  /\ f \in InFlight
  /\ f.pc = "signin_sent"
  /\ loading' = FALSE
  /\ IF fail
       THEN UNCHANGED <<session, user, authEvents>>
       ELSE /\ session' = f.user
            /\ user' = f.user
            /\ authEvents' = authEvents + 1
  /\ UNCHANGED <<needsProfileCompletion, userProfile, collections, lastLoad,
                 profTables>>
  /\ IF fail
       THEN Over(f)
       ELSE GoOn(f, StartFlow("check", "profile_sent", f.user))
  /\ ProfFrame

\* ProfileScreen.js, the .then of getUser(): setUser, loadUserCollections,
\* setLoading(false).
ResumeGetUserJs(f) ==
  /\ f \in InFlight
  /\ f.pc = "getUser_answered"
  /\ user' = f.user
  /\ IF f.user # NullUser
       THEN SetFlow(f, StartFlow("load", "list_sent", f.user))
       ELSE EndFlow(f)
  /\ loading' = FALSE
  /\ UNCHANGED <<session, needsProfileCompletion, userProfile, collections,
                 authEvents, profTables>>
  /\ UNCHANGED lastLoad
  /\ ProfFrame

\* ProfileScreen.js, the onAuthStateChange callback.
AuthStateChangeJs(currentUser) ==
  /\ authEvents < MaxAuthEvents
  /\ AuthTransition(currentUser)
  /\ authEvents' = authEvents + 1
  /\ session' = currentUser
  /\ user' = currentUser
  /\ IF currentUser # NullUser
       THEN /\ NewFlow(StartFlow("load", "list_sent", currentUser))
            /\ UNCHANGED collections
       ELSE /\ collections' = <<>>
            /\ UNCHANGED flows
  /\ UNCHANGED <<loading, needsProfileCompletion, userProfile, profTables>>
  /\ UNCHANGED lastLoad
  /\ ProfFrame

\* ProfileScreen.js loadUserCollections resumes after getUserCollections.
ResumeListJs(f) ==
  /\ f \in InFlight
  /\ f.pc = "list_answered"
  /\ collections' = IF f.ok THEN f.rows ELSE <<>>
  /\ EndFlow(f)
  /\ lastLoad' = Ended(f)
  /\ UNCHANGED <<session, user, loading, needsProfileCompletion, userProfile,
                 authEvents, profTables>>
  /\ ProfFrame

\* profile.tsx
ProfNext ==
  \/ \E f \in InFlight, fail \in BOOLEAN : ServeGetUser(f, fail)
  \/ \E f \in InFlight : ResumeGetUser(f)
  \/ \E u \in Identities \cup {NullUser} : AuthStateChange(u)
  \/ \E f \in InFlight, fail \in BOOLEAN : ServeProfile(f, fail)
  \/ \E f \in InFlight : ResumeProfile(f)
  \/ \E f \in InFlight, fail \in BOOLEAN : ServeList(f, fail)
  \/ \E f \in InFlight : ResumeList(f)
  \/ \E f \in InFlight, fail \in BOOLEAN : ServeCreate(f, fail)
  \/ \E f \in InFlight : ResumeCreate(f)

\* A request of the screen in flight is answered, or its continuation runs.
ProfRequests ==
  \E f \in InFlight :
    \/ \E fail \in BOOLEAN : ServeGetUser(f, fail)
    \/ ResumeGetUser(f)
    \/ \E fail \in BOOLEAN : ServeProfile(f, fail)
    \/ ResumeProfile(f)
    \/ \E fail \in BOOLEAN : ServeList(f, fail)
    \/ ResumeList(f)
    \/ \E fail \in BOOLEAN : ServeCreate(f, fail)
    \/ ResumeCreate(f)

\* profile.tsx with the screen focused and every request to the tables
\* answered: sign-ins go through the screen's form, the listener delivers
\* the sign-outs and the re-deliveries of the session.
ProfFocusNext ==
  \/ \E f \in InFlight : ServeGetUser(f, FALSE)
  \/ \E f \in InFlight : ResumeGetUser(f)
  \/ \E u \in {NullUser, session} : AuthStateChange(u)
  \/ \E u \in Identities : HandleEmailAuth(u)
  \/ \E f \in InFlight, fail \in BOOLEAN : ResumeSignIn(f, fail)
  \/ \E f \in InFlight : ServeProfile(f, FALSE)
  \/ \E f \in InFlight : ResumeProfile(f)
  \/ \E f \in InFlight : ServeList(f, FALSE)
  \/ \E f \in InFlight : ResumeList(f)
  \/ \E f \in InFlight : ServeCreate(f, FALSE)
  \/ \E f \in InFlight : ResumeCreate(f)

\* ProfileScreen.js
ProfJsNext ==
  \/ \E f \in InFlight, fail \in BOOLEAN : ServeGetUser(f, fail)
  \/ \E f \in InFlight : ResumeGetUserJs(f)
  \/ \E u \in Identities \cup {NullUser} : AuthStateChangeJs(u)
  \/ \E f \in InFlight, fail \in BOOLEAN : ServeList(f, fail)
  \/ \E f \in InFlight : ResumeListJs(f)

\* ------------------------------------------------------------- SearchScreen
\* Texts are sequences of characters.  The texts the user can have in the
\* search field: empty, whitespace only, and queries with and without
\* trailing whitespace.
Texts == {<<>>, <<" ">>, <<"a">>, <<"a", "b", " ">>}

\* The perfumes table: id and Name.
Catalog == {[id |-> 1, Name |-> <<"A">>], [id |-> 2, Name |-> <<"A", "b">>]}

\* String.prototype.trim()
RECURSIVE Trim(_)
Trim(t) ==
  IF t = <<>> THEN <<>>
  ELSE IF Head(t) = " " THEN Trim(Tail(t))
  ELSE IF t[Len(t)] = " " THEN Trim(SubSeq(t, 1, Len(t) - 1))
  ELSE t

\* !query || !query.trim()
IsBlank(query) == query = <<>> \/ Trim(query) = <<>>

\* A text in lower case (ILIKE compares without case).
Lower(t) == [k \in DOMAIN t |-> IF t[k] = "A" THEN "a"
                               ELSE IF t[k] = "B" THEN "b" ELSE t[k]]

\* Name ILIKE '%query%'
ILike(name, query) ==
  \E k \in 1..(Len(name) - Len(query) + 1) :
    SubSeq(Lower(name), k, k + Len(query) - 1) = Lower(query)

\* What searchPerfumes(query) returns when its request succeeds: the ids of
\* the matching perfumes.
SearchPerfumes(query) ==
  ArrayFrom({p.id : p \in {c \in Catalog : ILike(c.Name, query)}})

\* What getRandomPerfumes can return: no rows, or a sample of the catalog.
Samples == {<<>>, ArrayFrom({p.id : p \in Catalog})}

\* The length of one clock step.
TickMs == DebounceMs \div TicksPerWindow

NoBurst == [n |-> 0, last |-> <<>>, calls |-> <<>>]
NoneResolved == [last |-> 0, lastData |-> <<>>, newest |-> 0,
                 newestData |-> <<>>]

\* What the content area of SearchScreen renders.
Shown ==
  IF searchLoading /\ searchQuery = <<>> THEN "spinner"
  ELSE IF searchQuery = <<>> /\ perfumes = <<>> THEN "empty"
  ELSE IF searchQuery # <<>> THEN "results"
  ELSE "perfumes"

\* The items the content area lists.
ShownData ==
  IF Shown = "results" THEN results
  ELSE IF Shown = "perfumes" THEN perfumes
  ELSE <<>>

\* The state after the provider's first render: the mount effect has called
\* loadRandom.
SearchInit ==
  /\ perfumes = <<>>
  /\ results = <<>>
  /\ searchQuery = <<>>
  /\ searchLoading = TRUE
  /\ refreshing = FALSE
  /\ searching = FALSE
  /\ initializedRef = FALSE
  /\ debounceRef = 0
  /\ timers = {}
  /\ inputs = 0
  /\ sinceInput = DebounceMs
  /\ burst = NoBurst
  /\ searchCalls = {}
  /\ issued = 0
  /\ resolved = NoneResolved
  /\ callParity = 0
  /\ randomFlow = 1
  /\ fetches = 1
  /\ refreshes = 0

\* The provider is not mounted.
SearchQuiet ==
  /\ perfumes = <<>>
  /\ results = <<>>
  /\ searchQuery = <<>>
  /\ searchLoading = TRUE
  /\ refreshing = FALSE
  /\ searching = FALSE
  /\ initializedRef = FALSE
  /\ debounceRef = 0
  /\ timers = {}
  /\ inputs = 0
  /\ sinceInput = DebounceMs
  /\ burst = NoBurst
  /\ searchCalls = {}
  /\ issued = 0
  /\ resolved = NoneResolved
  /\ callParity = 0
  /\ randomFlow = 0
  /\ fetches = 0
  /\ refreshes = 0

\* loadRandom's guard with the force argument ignored.
AlreadyLoadedWhateverForce(initialized, length, force) ==
  initialized /\ length > 0

\* if (initializedRef.current && perfumes.length > 0 && !force) return
AlreadyLoaded(initialized, length, force) ==
  initialized /\ length > 0 /\ ~force

\* getRandomPerfumes(10) returns a sample or throws, and loadRandom resumes:
\* setPerfumes on success, and in the finally block setLoading(false),
\* setRefreshing(false), initializedRef.current = true.  When perfumes.length
\* has changed, the render that follows makes a new loadRandom and the effect
\* calls it unforced: it returns at its guard, or sets loading and sends a
\* new request.
ResumeRandom(fail, sample) ==
  /\ randomFlow > 0
  /\ perfumes' = IF fail THEN perfumes ELSE sample
  /\ refreshing' = FALSE
  /\ initializedRef' = TRUE
  /\ LET sends == /\ Len(perfumes') # Len(perfumes)
                   /\ ~AlreadyLoaded(TRUE, Len(perfumes'), FALSE)
     IN /\ searchLoading' = sends
        /\ randomFlow' = IF sends THEN randomFlow ELSE randomFlow - 1
        /\ fetches' = IF sends THEN fetches + 1 ELSE fetches
  /\ UNCHANGED <<results, searchQuery, searching, debounceRef, timers, inputs,
                 sinceInput, burst, searchCalls, issued, resolved,
                 callParity, refreshes>>
  /\ SearchFrame

\* The Refresh button while searchQuery is empty, and the baseline list's
\* onRefresh: refreshRandom sets refreshing and calls loadRandom(true), which
\* sets loading and sends the request.
RefreshRandom ==
  /\ searchQuery = <<>>
  /\ refreshes < MaxRefreshes
  /\ refreshes' = refreshes + 1
  /\ refreshing' = TRUE
  /\ IF AlreadyLoaded(initializedRef, Len(perfumes), TRUE)
       THEN UNCHANGED <<searchLoading, randomFlow, fetches>>
       ELSE /\ searchLoading' = TRUE
            /\ randomFlow' = randomFlow + 1
            /\ fetches' = fetches + 1
  /\ UNCHANGED <<perfumes, results, searchQuery, searching, initializedRef,
                 debounceRef, timers, inputs, sinceInput, burst, searchCalls,
                 issued, resolved, callParity>>
  /\ SearchFrame

\* clearTimeout that cancels nothing.
KeepTimeout(pending, ref) == pending

\* clearTimeout(debounceRef.current): the timer is cancelled if it is still
\* pending.
ClearTimeout(pending, ref) == {t \in pending : t.id # ref}

\* onChangeSearch(text): setSearchQuery, the previous timer cleared, a new
\* one set DebounceMs ahead.
OnChangeSearch(text) ==
  /\ inputs < MaxInputs
  /\ text # searchQuery
  /\ inputs' = inputs + 1
  /\ searchQuery' = text
  /\ timers' = (IF debounceRef # 0 THEN ClearTimeout(timers, debounceRef)
                ELSE timers)
               \cup {[id |-> inputs + 1, text |-> text, left |-> DebounceMs]}
  /\ debounceRef' = inputs + 1
  /\ sinceInput' = 0
  /\ burst' = IF burst.n > 0 /\ sinceInput < DebounceMs
                THEN [burst EXCEPT !.n = @ + 1, !.last = text]
                ELSE [n |-> 1, last |-> text, calls |-> <<>>]
  /\ UNCHANGED <<perfumes, results, searchLoading, refreshing, searching,
                 initializedRef, searchCalls, issued, resolved, randomFlow, fetches,
                 refreshes,
                 callParity>>
  /\ SearchFrame

\* Time passes by one clock step; no timer is overdue.
Tick ==
  /\ timers # {}
  /\ \A t \in timers : t.left > 0
  /\ timers' = {[t EXCEPT !.left = IF @ > TickMs THEN @ - TickMs ELSE 0] :
                t \in timers}
  /\ sinceInput' = IF sinceInput + TickMs < DebounceMs
                     THEN sinceInput + TickMs ELSE DebounceMs
  /\ UNCHANGED <<searchState, debounceRef, inputs, burst, searchCalls,
                 issued, resolved, randomFlow, fetches,
                 refreshes,
                 callParity>>
  /\ SearchFrame

\* performSearch(query) up to its await: a blank query clears the results
\* and returns; any other sets searching and sends searchPerfumes with the
\* trimmed query.
PerformSearch(query) ==
  /\ callParity' = 1 - callParity
  /\ IF IsBlank(query)
       THEN /\ results' = <<>>
            /\ searching' = FALSE
            /\ UNCHANGED <<searchCalls, issued>>
       ELSE /\ issued < MaxSearches
            /\ searching' = TRUE
            /\ issued' = issued + 1
            /\ searchCalls' = searchCalls \cup
                 {[seq |-> issued + 1, q |-> Trim(query)]}
            /\ UNCHANGED results

\* A debounce timer expires: performSearch(text) with the text it was set
\* with.
TimerFires(t) ==
  /\ t \in timers
  /\ t.left = 0
  /\ timers' = timers \ {t}
  /\ burst' = [burst EXCEPT !.calls = Append(@, t.text)]
  /\ PerformSearch(t.text)
  /\ UNCHANGED <<perfumes, searchQuery, searchLoading, refreshing,
                 initializedRef, debounceRef, inputs, sinceInput, resolved,
                 randomFlow, fetches,
                 refreshes>>
  /\ SearchFrame

\* onSubmitEditing, and the Research button and the results list's
\* onRefresh (both there only while searchQuery is truthy):
\* performSearch(searchQuery).
OnSubmitEditing ==
  /\ PerformSearch(searchQuery)
  /\ UNCHANGED <<perfumes, searchQuery, searchLoading, refreshing,
                 initializedRef, debounceRef, timers, inputs, sinceInput,
                 burst, resolved, randomFlow, fetches,
                 refreshes>>
  /\ SearchFrame

\* The Clear button, shown while searchQuery is truthy: clearSearch.
ClearSearch ==
  /\ searchQuery # <<>>
  /\ searchQuery' = <<>>
  /\ results' = <<>>
  /\ UNCHANGED <<perfumes, searchLoading, refreshing, searching,
                 initializedRef, debounceRef, timers, inputs, sinceInput,
                 burst, searchCalls, issued, resolved, randomFlow, fetches,
                 refreshes,
                 callParity>>
  /\ SearchFrame

\* What searchPerfumes(query) returns: the matching rows, or [] when the
\* request fails.
Response(r, fail) == IF fail THEN <<>> ELSE SearchPerfumes(r.q)

\* setResults guarded by a test that the response is the latest request's.
AppliedIfLatest(r, data, current) == IF r.seq = issued THEN data ELSE current

\* setResults(data || [])
Applied(r, data, current) == data

\* searchPerfumes returns and performSearch resumes after its await:
\* setResults, and setSearching(false) in the finally block.
ResumeSearch(r, fail) ==
  /\ r \in searchCalls
  /\ searchCalls' = searchCalls \ {r}
  /\ results' = Applied(r, Response(r, fail), results)
  /\ searching' = FALSE
  /\ resolved' = [last |-> r.seq,
                  lastData |-> Response(r, fail),
                  newest |-> IF r.seq > resolved.newest THEN r.seq
                             ELSE resolved.newest,
                  newestData |-> IF r.seq > resolved.newest
                                   THEN Response(r, fail)
                                   ELSE resolved.newestData]
  /\ UNCHANGED <<perfumes, searchQuery, searchLoading, refreshing,
                 initializedRef, debounceRef, timers, inputs, sinceInput,
                 burst, issued, randomFlow, fetches,
                 refreshes,
                 callParity>>
  /\ SearchFrame

SearchNext ==
  \/ \E fail \in BOOLEAN, sample \in Samples : ResumeRandom(fail, sample)
  \/ \E text \in Texts : OnChangeSearch(text)
  \/ Tick
  \/ \E t \in timers : TimerFires(t)
  \/ OnSubmitEditing
  \/ ClearSearch
  \/ \E r \in searchCalls, fail \in BOOLEAN : ResumeSearch(r, fail)

\* The baseline of the search screen: the loads and refreshes of the random
\* sample, and the edits of the search field that show and hide it, within
\* one debounce window.
BaselineNext ==
  \/ \E fail \in BOOLEAN, sample \in Samples : ResumeRandom(fail, sample)
  \/ RefreshRandom
  \/ \E text \in Texts : OnChangeSearch(text)
  \/ ClearSearch

\* ------------------------------------------------------------ profile edit
\* The characters of the model's texts.
Digits == {"0", "1", "2", "3", "4", "5", "6", "7", "8", "9"}
Letters == {"a", "b", "c", "x", "A", "Z"}
DigitValue ==
  [c \in Digits |->
     CASE c = "0" -> 0 [] c = "1" -> 1 [] c = "2" -> 2 [] c = "3" -> 3
       [] c = "4" -> 4 [] c = "5" -> 5 [] c = "6" -> 6 [] c = "7" -> 7
       [] c = "8" -> 8 [] c = "9" -> 9]
DigitChar == <<"0", "1", "2", "3", "4", "5", "6", "7", "8", "9">>

\* The text of n copies of character c.
Rep(c, n) == [i \in 1..n |-> c]

\* The texts typed into the username, age and country fields.
UsernameTexts ==
  {<<>>, <<"a", "b">>, <<"a", "b", "c">>, <<" ", "a", "b", "c", " ">>,
   <<"a", " ", "!">>, <<"A", "_", "7">>,
   Rep("a", MaxUsernameLength), Rep("a", MaxUsernameLength + 1)}
AgeTexts ==
  {<<>>, <<"1", "2">>, <<"1", "3">>, <<"1", "2", "0">>, <<"1", "2", "1">>,
   <<"a", "b", "c">>, <<"1", "3", ".", "5">>}
CountryTexts == {<<" ">>, <<"S", "G">>}

\* /^[a-zA-Z0-9_]+$/.test(t)
MatchesWord(t) ==
  /\ t # <<>>
  /\ \A i \in DOMAIN t : t[i] \in Letters \cup Digits \cup {"_"}

\* validateUsername's checks before its remote call, with a length test
\* that also refuses the shortest names.
LocalErrorShortest(t) ==
  IF Len(t) <= MinUsernameLength
    THEN "Username must be at least 3 characters"
  ELSE IF Len(t) > MaxUsernameLength
    THEN "Username must be less than 20 characters"
  ELSE IF ~MatchesWord(t)
    THEN "Username can only contain letters, numbers, and underscores"
  ELSE ""

\* validateUsername's checks before its remote call: the error it sets, or
\* '' when the text passes them.
LocalError(t) ==
  IF Len(t) < MinUsernameLength
    THEN "Username must be at least 3 characters"
  ELSE IF Len(t) > MaxUsernameLength
    THEN "Username must be less than 20 characters"
  ELSE IF ~MatchesWord(t)
    THEN "Username can only contain letters, numbers, and underscores"
  ELSE ""

\* checkUsernameAvailability on the rows of user_profiles: no row has the
\* username, the row of excludeUserId aside when one is given.
CheckUsernameAvailability(rows, username, excludeUserId) ==
  {id \in DOMAIN rows :
     /\ rows[id].username = username
     /\ excludeUserId = NullUser \/ id # excludeUserId} = {}

\* The longest prefix of digits of a text.
RECURSIVE DigitsPrefix(_)
DigitsPrefix(t) ==
  IF t = <<>> \/ Head(t) \notin Digits THEN <<>>
  ELSE <<Head(t)>> \o DigitsPrefix(Tail(t))

\* The number a text of digits denotes.
RECURSIVE ValueOf(_)
ValueOf(d) ==
  IF d = <<>> THEN 0
  ELSE ValueOf(SubSeq(d, 1, Len(d) - 1)) * 10 + DigitValue[d[Len(d)]]

\* A text without its leading white space.
RECURSIVE TrimStart(_)
TrimStart(t) ==
  IF t # <<>> /\ Head(t) = " " THEN TrimStart(Tail(t)) ELSE t

\* parseInt(t): leading white space skipped, an optional sign, then the
\* longest run of digits; NaN when there is no digit there.
ParseInt(t) ==
  LET s == TrimStart(t)
      signed == s # <<>> /\ Head(s) \in {"-", "+"}
      d == DigitsPrefix(IF signed THEN Tail(s) ELSE s)
  IN IF d = <<>> THEN [nan |-> TRUE, value |-> 0]
     ELSE [nan |-> FALSE,
           value |-> IF signed /\ Head(s) = "-" THEN 0 - ValueOf(d)
                     ELSE ValueOf(d)]

\* Number.prototype.toString() of a natural number.
RECURSIVE NumberToString(_)
NumberToString(n) ==
  IF n < 10 THEN <<DigitChar[n + 1]>>
  ELSE NumberToString(n \div 10) \o <<DigitChar[(n % 10) + 1]>>

\* handleSaveProfile's age test passes.
AgeAccepted(t) ==
  LET ageNumber == ParseInt(t)
  IN ~(ageNumber.nan \/ ageNumber.value < MinAge \/ ageNumber.value > MaxAge)

IdleSave == [pc |-> "idle", user |-> NullUser, username |-> <<>>, age |-> 0,
             country |-> <<>>, ok |-> TRUE, available |-> FALSE]

\* The updates a save sends to updateUserProfile.
Updates(f) == [username |-> f.username, age |-> f.age, country |-> f.country]

\* handleCancelEdit's reset of the form to the stored profile.
FormOf(profile) ==
  [username |-> profile.username,
   age |-> IF profile.age = 0 THEN <<>> ELSE NumberToString(profile.age),
   country |-> profile.country]

\* The profile of identity A and of another user, as first stored.
ProfileOfA == [username |-> <<"A", "_", "7">>, age |-> 30,
               country |-> <<"S", "G">>]
ProfileOfB == [username |-> <<"a", "b", "c">>, age |-> 40,
               country |-> <<"S", "G">>]

\* The profile view of identity A is shown, its profile and collections
\* loaded and nothing in flight.
EditInit ==
  /\ editedProfile = FormOf(ProfileOfA)
  /\ isEditing = FALSE
  /\ usernameError = ""
  /\ showProfileDetails = FALSE
  /\ profileDetails = ProfileOfA
  /\ profileRows = [id \in Identities |->
                      IF id = "A" THEN ProfileOfA ELSE ProfileOfB]
  /\ saveFlow = IdleSave
  /\ saves = 0

\* The screen is not mounted.
EditQuiet ==
  /\ editedProfile = [username |-> <<>>, age |-> <<>>, country |-> <<>>]
  /\ isEditing = FALSE
  /\ usernameError = ""
  /\ showProfileDetails = FALSE
  /\ profileDetails = [username |-> <<>>, age |-> 0, country |-> <<>>]
  /\ profileRows = <<>>
  /\ saveFlow = IdleSave
  /\ saves = 0

\* The rest of the profile screen's state and tables in EditInit.
ProfLoaded ==
  /\ session = "A"
  /\ user = "A"
  /\ loading = FALSE
  /\ needsProfileCompletion = FALSE
  /\ userProfile = [id |-> "A"]
  /\ user_profiles = Identities
  /\ collectionsTable = Inserted(DefaultCollections("A"), 1)
  /\ nextCollectionId = 3
  /\ collections = UserCollections("A")
  /\ flows = EmptyBag
  /\ authEvents = 0
  /\ lastLoad = NoLoadYet
  /\ focused = TRUE

\* The profile details modal is on the screen.
ModalShown == View = "profile" /\ showProfileDetails

\* The profile header is pressed: the modal opens.
OpenProfileDetails ==
  /\ View = "profile"
  /\ ~showProfileDetails
  /\ showProfileDetails' = TRUE
  /\ UNCHANGED <<editedProfile, isEditing, usernameError, profileDetails,
                 profileRows, saveFlow, saves>>
  /\ EditFrame

\* The modal's Done button, or its onRequestClose.
CloseProfileDetails ==
  /\ ModalShown
  /\ showProfileDetails' = FALSE
  /\ UNCHANGED <<editedProfile, isEditing, usernameError, profileDetails,
                 profileRows, saveFlow, saves>>
  /\ EditFrame

HandleEditProfile ==
  /\ ModalShown
  /\ ~isEditing
  /\ isEditing' = TRUE
  /\ UNCHANGED <<editedProfile, usernameError, showProfileDetails,
                 profileDetails, profileRows, saveFlow, saves>>
  /\ EditFrame

\* onChangeText of the username field.
OnChangeUsername(text) ==
  /\ ModalShown
  /\ isEditing
  /\ editedProfile' = [editedProfile EXCEPT !.username = text]
  /\ usernameError' = ""
  /\ UNCHANGED <<isEditing, showProfileDetails, profileDetails, profileRows,
                 saveFlow, saves>>
  /\ EditFrame

\* onChangeText of the age field.
OnChangeAge(text) ==
  /\ ModalShown
  /\ isEditing
  /\ editedProfile' = [editedProfile EXCEPT !.age = text]
  /\ UNCHANGED <<isEditing, usernameError, showProfileDetails, profileDetails,
                 profileRows, saveFlow, saves>>
  /\ EditFrame

\* onChangeText of the country field.
OnChangeCountry(text) ==
  /\ ModalShown
  /\ isEditing
  /\ editedProfile' = [editedProfile EXCEPT !.country = text]
  /\ UNCHANGED <<isEditing, usernameError, showProfileDetails, profileDetails,
                 profileRows, saveFlow, saves>>
  /\ EditFrame

HandleCancelEdit ==
  /\ ModalShown
  /\ isEditing
  /\ isEditing' = FALSE
  /\ usernameError' = ""
  /\ showProfileDetails' = FALSE
  /\ editedProfile' = IF userProfile # NullProfile THEN FormOf(profileDetails)
                      ELSE editedProfile
  /\ UNCHANGED <<profileDetails, profileRows, saveFlow, saves>>
  /\ EditFrame

\* handleSaveProfile goes on to its try block: setLoading(true) and the
\* updateUserProfile request.
SendUpdate(f) ==
  /\ saveFlow' = [f EXCEPT !.pc = "update_sent"]
  /\ loading' = TRUE
  /\ Rerender

\* handleSaveProfile returns without a request.
NoRequest ==
  /\ UNCHANGED <<saveFlow, loading, flows>>

\* handleSaveProfile's test with every username taken as changed.
UsernameChangedAlways(username, stored) == TRUE

\* editedProfile.username.trim() !== userProfile.username
UsernameChanged(username, stored) == username # stored

\* The Save button (disabled while loading); one save at a time.  The
\* handler's closure holds this render's user and editedProfile.
HandleSaveProfile ==
  /\ ModalShown
  /\ isEditing
  /\ saveFlow.pc = "idle"
  /\ saves < MaxSaves
  /\ saves' = saves + 1
  /\ UNCHANGED <<session, user, needsProfileCompletion, userProfile,
                 collections, authEvents, lastLoad, focused, profTables>>
  /\ LET username == Trim(editedProfile.username)
         f == [IdleSave EXCEPT !.user = user, !.username = username,
                               !.age = ParseInt(editedProfile.age).value,
                               !.country = Trim(editedProfile.country)]
     IN IF user = NullUser \/ userProfile = NullProfile
          THEN NoRequest /\ UNCHANGED usernameError
        ELSE IF \/ username = <<>>
                \/ Trim(editedProfile.age) = <<>>
                \/ Trim(editedProfile.country) = <<>>
          THEN NoRequest /\ UNCHANGED usernameError
        ELSE IF ~AgeAccepted(editedProfile.age)
          THEN NoRequest /\ UNCHANGED usernameError
        ELSE IF UsernameChanged(username, profileDetails.username)
          THEN IF LocalError(username) # ""
                 THEN NoRequest /\ usernameError' = LocalError(username)
                 ELSE /\ saveFlow' = [f EXCEPT !.pc = "avail_sent"]
                      /\ UNCHANGED <<usernameError, loading, flows>>
        ELSE SendUpdate(f) /\ UNCHANGED usernameError
  /\ UNCHANGED <<editedProfile, isEditing, showProfileDetails, profileDetails,
                 profileRows>>
  /\ UNCHANGED <<tableVars, addVars, detVars, searchVars, pureVars>>

\* The backend answers checkUsernameAvailability's query, or the request
\* fails.
ServeAvailability(fail) ==
  /\ saveFlow.pc = "avail_sent"
  /\ saveFlow' = [saveFlow EXCEPT
       !.pc = "avail_answered",
       !.ok = ~fail,
       !.available = ~fail /\ CheckUsernameAvailability(profileRows,
                                saveFlow.username, saveFlow.user)]
  /\ UNCHANGED <<editedProfile, isEditing, usernameError, showProfileDetails,
                 profileDetails, profileRows, saves>>
  /\ EditFrame

\* validateUsername resumes after checkUsernameAvailability and returns to
\* handleSaveProfile.
ResumeValidate ==
  /\ saveFlow.pc = "avail_answered"
  /\ UNCHANGED <<session, user, needsProfileCompletion, userProfile,
                 collections, authEvents, lastLoad, focused, profTables>>
  /\ IF saveFlow.ok /\ saveFlow.available
       THEN /\ usernameError' = ""
            /\ SendUpdate(saveFlow)
       ELSE /\ usernameError' = IF saveFlow.ok
                                   THEN "Username is already taken"
                                   ELSE "Error checking username availability"
            /\ saveFlow' = IdleSave
            /\ UNCHANGED <<loading, flows>>
  /\ UNCHANGED <<editedProfile, isEditing, showProfileDetails, profileDetails,
                 profileRows, saves>>
  /\ UNCHANGED <<tableVars, addVars, detVars, searchVars, pureVars>>

\* The backend serves updateUserProfile's update(...).eq('id', userId)
\* .select().single(), or the request fails.
ServeUpdate(fail) ==
  /\ saveFlow.pc = "update_sent"
  /\ IF fail \/ saveFlow.user \notin DOMAIN profileRows
       THEN /\ saveFlow' = [saveFlow EXCEPT !.pc = "update_answered",
                                            !.ok = FALSE]
            /\ UNCHANGED profileRows
       ELSE /\ saveFlow' = [saveFlow EXCEPT !.pc = "update_answered",
                                            !.ok = TRUE]
            /\ profileRows' = [profileRows EXCEPT
                                 ![saveFlow.user] = Updates(saveFlow)]
  /\ UNCHANGED <<editedProfile, isEditing, usernameError, showProfileDetails,
                 profileDetails, saves>>
  /\ EditFrame

\* handleSaveProfile resumes after updateUserProfile; its finally block
\* sets loading to false.
ResumeUpdate ==
  /\ saveFlow.pc = "update_answered"
  /\ IF saveFlow.ok
       THEN /\ userProfile' = [id |-> saveFlow.user]
            /\ profileDetails' = Updates(saveFlow)
            /\ isEditing' = FALSE
            /\ usernameError' = ""
            /\ showProfileDetails' = FALSE
       ELSE UNCHANGED <<userProfile, profileDetails, isEditing, usernameError,
                        showProfileDetails>>
  /\ loading' = FALSE
  /\ saveFlow' = IdleSave
  /\ UNCHANGED <<session, user, needsProfileCompletion, collections,
                 authEvents, lastLoad, focused, profTables>>
  /\ Rerender
  /\ UNCHANGED <<editedProfile, profileRows, saves>>
  /\ UNCHANGED <<tableVars, addVars, detVars, searchVars, pureVars>>

\* The profile details modal of profile.tsx, with the collection refreshes
\* its saves set off.
EditNext ==
  \/ OpenProfileDetails
  \/ CloseProfileDetails
  \/ HandleEditProfile
  \/ \E text \in UsernameTexts : OnChangeUsername(text)
  \/ \E text \in AgeTexts : OnChangeAge(text)
  \/ \E text \in CountryTexts : OnChangeCountry(text)
  \/ HandleCancelEdit
  \/ HandleSaveProfile
  \/ \E fail \in BOOLEAN : ServeAvailability(fail)
  \/ ResumeValidate
  \/ \E fail \in BOOLEAN : ServeUpdate(fail)
  \/ ResumeUpdate
  \/ \E f \in InFlight : ServeList(f, FALSE)
  \/ \E f \in InFlight : ResumeList(f)

\* -------------------------------------------------------- create collection
\* The texts typed into the name and description fields of the Create
\* Collection form.
CollectionNameTexts == {<<>>, <<" ">>, <<"O">>, <<" ", "O", " ">>}
DescriptionTexts == {<<>>, <<"d", " ">>}

\* The modal is closed and its drafts are empty.
CreateInit ==
  /\ showNewCollectionModal = FALSE
  /\ newCollectionName = <<>>
  /\ newCollectionDescription = <<>>
  /\ createFlow = IdleCreate
  /\ creates = 0

\* The screen is not mounted.
CreateQuiet ==
  /\ showNewCollectionModal = FALSE
  /\ newCollectionName = <<>>
  /\ newCollectionDescription = <<>>
  /\ createFlow = IdleCreate
  /\ creates = 0

CreateFrame ==
  UNCHANGED <<tableVars, addVars, detVars, searchVars, editVars, listVars,
              sortVars, navVars>>

\* The Create Collection modal is on the screen.
NewCollectionModalShown == View = "profile" /\ showNewCollectionModal

\* The Create Collection card is pressed.
OpenNewCollectionModal ==
  /\ View = "profile"
  /\ ~showNewCollectionModal
  /\ showNewCollectionModal' = TRUE
  /\ UNCHANGED <<newCollectionName, newCollectionDescription, createFlow,
                 creates>>
  /\ UNCHANGED profVars
  /\ CreateFrame

\* The modal's onRequestClose.
RequestCloseNewCollection ==
  /\ NewCollectionModalShown
  /\ showNewCollectionModal' = FALSE
  /\ UNCHANGED <<newCollectionName, newCollectionDescription, createFlow,
                 creates>>
  /\ UNCHANGED profVars
  /\ CreateFrame

\* The modal's Cancel button.
CancelNewCollection ==
  /\ NewCollectionModalShown
  /\ showNewCollectionModal' = FALSE
  /\ newCollectionName' = <<>>
  /\ newCollectionDescription' = <<>>
  /\ UNCHANGED <<createFlow, creates>>
  /\ UNCHANGED profVars
  /\ CreateFrame

OnChangeCollectionName(text) ==
  /\ NewCollectionModalShown
  /\ newCollectionName' = text
  /\ UNCHANGED <<showNewCollectionModal, newCollectionDescription, createFlow,
                 creates>>
  /\ UNCHANGED profVars
  /\ CreateFrame

OnChangeCollectionDescription(text) ==
  /\ NewCollectionModalShown
  /\ newCollectionDescription' = text
  /\ UNCHANGED <<showNewCollectionModal, newCollectionName, createFlow,
                 creates>>
  /\ UNCHANGED profVars
  /\ CreateFrame

\* handleCreateCollection's guard with the name not trimmed.
NothingToCreateUntrimmed(currentUser, name) ==
  currentUser = NullUser \/ name = <<>>

\* !user || !newCollectionName.trim()
NothingToCreate(currentUser, name) ==
  currentUser = NullUser \/ Trim(name) = <<>>

\* handleCreateCollection is called, one call at a time: in any state of the
\* screen, also one in which the button that calls it is disabled (blank
\* name) or not rendered (signed out).  It returns at its guard, or sets
\* loading and sends createCollection with the trimmed name and description
\* (the empty description standing for undefined).
HandleCreateCollection ==
  /\ createFlow.pc = "idle"
  /\ creates < MaxCreates
  /\ creates' = creates + 1
  /\ UNCHANGED <<session, user, needsProfileCompletion, userProfile,
                 collections, authEvents, lastLoad, focused, profTables>>
  /\ IF NothingToCreate(user, newCollectionName)
       THEN UNCHANGED <<createFlow, loading, flows>>
       ELSE /\ createFlow' = [IdleCreate EXCEPT
                 !.pc = "insert_sent", !.user = user,
                 !.name = Trim(newCollectionName),
                 !.description = Trim(newCollectionDescription)]
            /\ loading' = TRUE
            /\ Rerender
  /\ UNCHANGED <<showNewCollectionModal, newCollectionName,
                 newCollectionDescription>>
  /\ CreateFrame

\* The backend serves createCollection's insert([collection]).select()
\* .single(): the row gets the next id and is no default collection.
ServeCreateCollection(fail) ==
  /\ createFlow.pc = "insert_sent"
  /\ createFlow' = [createFlow EXCEPT !.pc = "insert_answered", !.ok = ~fail]
  /\ IF fail
       THEN UNCHANGED <<collectionsTable, nextCollectionId>>
       ELSE /\ collectionsTable' = collectionsTable \cup
                 {[id |-> nextCollectionId, user_id |-> createFlow.user,
                   name |-> createFlow.name, is_default |-> FALSE]}
            /\ nextCollectionId' = nextCollectionId + 1
  /\ UNCHANGED <<showNewCollectionModal, newCollectionName,
                 newCollectionDescription, creates>>
  /\ UNCHANGED <<session, user, loading, needsProfileCompletion, userProfile,
                 collections, flows, authEvents, lastLoad, focused,
                 user_profiles>>
  /\ CreateFrame

\* handleCreateCollection resumes after createCollection: it awaits
\* refreshCollections(), or in its catch and finally blocks sets loading to
\* false.
ResumeCreateCollection ==
  /\ createFlow.pc = "insert_answered"
  /\ UNCHANGED <<session, user, needsProfileCompletion, userProfile,
                 collections, authEvents, lastLoad, focused, profTables>>
  /\ IF createFlow.ok
       THEN /\ createFlow' = [createFlow EXCEPT !.pc = "refresh"]
            /\ UNCHANGED loading
            /\ Begin(StartFlow("new", "list_sent", createFlow.user))
       ELSE /\ createFlow' = IdleCreate
            /\ loading' = FALSE
            /\ Rerender
  /\ UNCHANGED <<showNewCollectionModal, newCollectionName,
                 newCollectionDescription, creates>>
  /\ CreateFrame

\* The Create Collection modal of profile.tsx, with the collection loads
\* its creates set off, their list queries answered, and the user's
\* sign-out.
CreateNext ==
  \/ OpenNewCollectionModal
  \/ RequestCloseNewCollection
  \/ CancelNewCollection
  \/ \E text \in CollectionNameTexts : OnChangeCollectionName(text)
  \/ \E text \in DescriptionTexts : OnChangeCollectionDescription(text)
  \/ HandleCreateCollection
  \/ \E fail \in BOOLEAN : ServeCreateCollection(fail)
  \/ ResumeCreateCollection
  \/ \E f \in InFlight : ServeList(f, FALSE)
  \/ \E f \in InFlight : ResumeList(f)
  \/ AuthStateChange(NullUser)

\* ------------------------------------------------------- getUserCollections
\* A membership row without an image (perfume_image_url null).
NoImage == 0

\* The collections table of the listing: two collections of identity A,
\* with any is_default and created_at, and one of identity B.
ListedCollections ==
  {{[id |-> 1, user_id |-> "A", is_default |-> d1, created_at |-> t1],
    [id |-> 2, user_id |-> "A", is_default |-> d2, created_at |-> t2],
    [id |-> 3, user_id |-> "B", is_default |-> TRUE, created_at |-> 1]} :
   d1 \in BOOLEAN, d2 \in BOOLEAN, t1 \in 1..2, t2 \in 1..2}

\* The collection_items table in row order: row k is in collection 1 or 3
\* and has no image or the image k (each perfume its own image URL).
ListedItems(n) ==
  {[k \in 1..n |-> [id |-> k, collection_id |-> c[k],
                    perfume_image_url |-> IF img[k] THEN k ELSE NoImage]] :
   c \in [1..n -> {1, 3}], img \in [1..n -> BOOLEAN]}

NoListing == [user |-> NullUser, rows |-> <<>>]

\* The embedded collection_items of a collection, in row order.
EmbeddedItems(collection, itemRows) ==
  SelectSeq(itemRows, LAMBDA m : m.collection_id = collection.id)

\* The sample images taken as the first 4 rows' images, the rows without an
\* image not filtered out first.
SampleImagesOfFirstRows(its) ==
  LET first == SubSeq(its, 1, IF Len(its) < SampleSize THEN Len(its)
                              ELSE SampleSize)
      withImage == SelectSeq(first, LAMBDA m : m.perfume_image_url # NoImage)
  IN [k \in DOMAIN withImage |-> withImage[k].perfume_image_url]

\* items.filter(item => item.perfume_image_url).slice(0, 4).map(...)
SampleImages(its) ==
  LET withImage == SelectSeq(its, LAMBDA m : m.perfume_image_url # NoImage)
      first == SubSeq(withImage, 1, IF Len(withImage) < SampleSize
                                      THEN Len(withImage) ELSE SampleSize)
  IN [k \in DOMAIN first |-> first[k].perfume_image_url]

\* getUserCollections' map of one row of the joined query.
CollectionWithCount(collection, itemRows) ==
  LET its == EmbeddedItems(collection, itemRows)
  IN [id |-> collection.id, user_id |-> collection.user_id,
      is_default |-> collection.is_default,
      created_at |-> collection.created_at,
      item_count |-> Len(its),
      sample_images |-> SampleImages(its)]

\* order('is_default', {ascending: false}).order('created_at', {ascending:
\* true}): the orders the database may return the rows in.
Ordered(rows) ==
  {s \in [1..Cardinality(rows) -> rows] :
     /\ \A j, k \in DOMAIN s : j # k => s[j] # s[k]
     /\ \A j, k \in DOMAIN s :
          j < k => \/ s[j].is_default /\ ~s[k].is_default
                   \/ /\ s[j].is_default = s[k].is_default
                      /\ s[j].created_at <= s[k].created_at}

\* The tables before any getUserCollections call.
ListInit ==
  /\ joinCollections \in ListedCollections
  /\ \E n \in 0..MaxListedItems : joinItems \in ListedItems(n)
  /\ listing = NoListing

\* No listing is made.
ListQuiet ==
  /\ joinCollections = {}
  /\ joinItems = <<>>
  /\ listing = NoListing

\* getUserCollections(userId) on the tables.
GetUserCollections(userId) ==
  /\ \E data \in Ordered({c \in joinCollections : c.user_id = userId}) :
       listing' = [user |-> userId,
                   rows |-> [k \in DOMAIN data |->
                               CollectionWithCount(data[k], joinItems)]]
  /\ UNCHANGED <<joinCollections, joinItems>>
  /\ UNCHANGED <<tableVars, addVars, detVars, profVars, searchVars, editVars,
                 sortVars, createVars, navVars>>

ListNext == \E userId \in Identities : GetUserCollections(userId)

\* ---------------------------------------------------------------- sortItems
\* A membership row without a brand (perfume_brand null).
NoBrand == "null"

\* The strings of the rows to sort, in the order localeCompare gives them:
\* the empty string, then 'a', then 'B' (letters compare by their alphabetic
\* place before their case).
Collation == <<"", "a", "B">>

\* a.localeCompare(b): negative, zero or positive.
LocaleCompare(a, b) ==
  LET rank(s) == CHOOSE k \in DOMAIN Collation : Collation[k] = s
  IN rank(a) - rank(b)

SortOptions == {"recently_added", "brand", "name"}

\* The lists to sort: up to MaxSortItems rows, row k with id k, any name,
\* any brand or none, and one of two creation times.
SortInputs(n) ==
  {[k \in 1..n |-> [id |-> k, perfume_name |-> name[k],
                    perfume_brand |-> brand[k],
                    created_at |-> created[k]]] :
   name \in [1..n -> {"a", "B"}],
   brand \in [1..n -> {NoBrand, "", "B"}],
   created \in [1..n -> 1..2]}

\* sortItems' comparators.
Compare(a, b, sortOption) ==
  CASE sortOption = "brand" ->
         LocaleCompare(IF a.perfume_brand = NoBrand THEN "" ELSE a.perfume_brand,
                       IF b.perfume_brand = NoBrand THEN "" ELSE b.perfume_brand)
    [] sortOption = "name" -> LocaleCompare(a.perfume_name, b.perfume_name)
    [] OTHER -> b.created_at - a.created_at

\* A sort that puts a row before the rows it compares equal to.
RECURSIVE InsertedBeforeEquals(_, _, _)
InsertedBeforeEquals(x, sorted, sortOption) ==
  IF sorted = <<>> THEN <<x>>
  ELSE IF Compare(Head(sorted), x, sortOption) < 0
    THEN <<Head(sorted)>> \o InsertedBeforeEquals(x, Tail(sorted), sortOption)
  ELSE <<x>> \o sorted

\* Array.prototype.sort(compare), a stable sort: x goes after the rows that
\* do not compare greater than it.
RECURSIVE InsertedInOrder(_, _, _)
InsertedInOrder(x, sorted, sortOption) ==
  IF sorted = <<>> THEN <<x>>
  ELSE IF Compare(Head(sorted), x, sortOption) <= 0
    THEN <<Head(sorted)>> \o InsertedInOrder(x, Tail(sorted), sortOption)
  ELSE <<x>> \o sorted

\* sortItems(itemsToSort, sortOption): a copy of the list, sorted.
RECURSIVE SortItems(_, _)
SortItems(list, sortOption) ==
  IF list = <<>> THEN <<>>
  ELSE InsertedInOrder(list[Len(list)],
                       SortItems(SubSeq(list, 1, Len(list) - 1), sortOption),
                       sortOption)

\* The first render: sortBy is 'recently_added'.
SortInit ==
  /\ \E n \in 0..MaxSortItems : itemsToSort \in SortInputs(n)
  /\ sortBy = "recently_added"
  /\ sortedItems = SortItems(itemsToSort, "recently_added")

\* The screen is not mounted.
SortQuiet ==
  /\ itemsToSort = <<>>
  /\ sortBy = "recently_added"
  /\ sortedItems = <<>>

\* A sort option is chosen; the render computes sortItems(items, sortBy).
SetSortBy(sortOption) ==
  /\ sortBy' = sortOption
  /\ sortedItems' = SortItems(itemsToSort, sortOption)
  /\ UNCHANGED itemsToSort
  /\ UNCHANGED <<tableVars, addVars, detVars, profVars, searchVars, editVars,
                 listVars, createVars, navVars>>

SortNext == \E sortOption \in SortOptions : SetSortBy(sortOption)

\* ---------------------------------------------------------------------- App
\* The tabs of FloatingNavBar.
Tabs == {"discover", "profile"}
NoPerfume == "none"
NoCollection == 0

\* What App renders above the navigation bar.
Screen ==
  IF selectedPerfumeId # NoPerfume THEN "PerfumeDetails"
  ELSE IF selectedCollection # NoCollection THEN "CollectionDetails"
  ELSE IF activeTab = "discover" THEN "SearchScreen"
  ELSE "ProfileScreen"

\* The screen of a tab.
TabScreen(tab) == IF tab = "discover" THEN "SearchScreen" ELSE "ProfileScreen"

NavInit ==
  /\ activeTab = "discover"
  /\ selectedPerfumeId = NoPerfume
  /\ selectedCollection = NoCollection
  /\ screens = <<>>

\* No gesture is made on App.
NavQuiet == NavInit

NavFrame ==
  UNCHANGED <<tableVars, addVars, detVars, profVars, searchVars, editVars,
              listVars, sortVars, createVars>>

\* A gesture is made and App renders again.
Rendered ==
  /\ Len(screens) < MaxGestures
  /\ screens' = Append(screens, Screen')

\* A tab of the navigation bar, which is on the screen under every view, is
\* pressed: handleTabChange(tab).
HandleTabChange(tab) ==
  /\ activeTab' = tab
  /\ selectedPerfumeId' =
       IF tab # "discover" THEN NoPerfume ELSE selectedPerfumeId
  /\ selectedCollection' =
       IF tab # "profile" THEN NoCollection ELSE selectedCollection
  /\ Rendered
  /\ NavFrame

\* A perfume is pressed in SearchScreen or in CollectionDetails:
\* onSelectPerfume is setSelectedPerfumeId.
OnSelectPerfume(perfumeId) ==
  /\ Screen \in {"SearchScreen", "CollectionDetails"}
  /\ selectedPerfumeId' = perfumeId
  /\ UNCHANGED <<activeTab, selectedCollection>>
  /\ Rendered
  /\ NavFrame

\* PerfumeDetails' onBack.
OnBackFromPerfume ==
  /\ Screen = "PerfumeDetails"
  /\ selectedPerfumeId' = NoPerfume
  /\ UNCHANGED <<activeTab, selectedCollection>>
  /\ Rendered
  /\ NavFrame

\* A collection card of ProfileScreen is pressed.
HandleSelectCollection(collection) ==
  /\ Screen = "ProfileScreen"
  /\ selectedCollection' = collection
  /\ UNCHANGED <<activeTab, selectedPerfumeId>>
  /\ Rendered
  /\ NavFrame

\* CollectionDetails' onBack.
HandleBackFromCollection ==
  /\ Screen = "CollectionDetails"
  /\ selectedCollection' = NoCollection
  /\ UNCHANGED <<activeTab, selectedPerfumeId>>
  /\ Rendered
  /\ NavFrame

NavNext ==
  \/ \E tab \in Tabs : HandleTabChange(tab)
  \/ \E perfumeId \in PerfumeIds : OnSelectPerfume(perfumeId)
  \/ OnBackFromPerfume
  \/ \E collection \in CollectionIds : HandleSelectCollection(collection)
  \/ HandleBackFromCollection

\* ---------------------------------------------------------- specifications

AddNext ==
  \/ \E c \in Callers, cid \in CollectionIds, pid \in PerfumeIds :
       AddIssue(c, cid, pid)
  \/ \E c \in Callers, fail \in BOOLEAN : ServeCheck(c, fail)
  \/ \E c \in Callers : ResumeCheck(c)
  \/ \E c \in Callers, fail \in BOOLEAN : ServeInsert(c, fail)
  \/ \E c \in Callers : ResumeInsert(c)
  \/ \E cid \in CollectionIds : GetCollectionItems(cid)

\* Concurrent adds: any interleaving of the callers' steps.
InitAdd ==
  EmptyTable /\ AddInit /\ NavQuiet /\ CreateQuiet
  /\ DetQuiet /\ ProfQuiet /\ SearchQuiet /\ EditQuiet
  /\ ListQuiet /\ SortQuiet

SpecAdd == InitAdd /\ [][AddNext]_vars

\* No addPerfumeToCollection call is in flight.
NoCallInFlight == \A c \in Callers : addCall[c].pc = "idle"

\* Sequential adds: a call starts only after the previous one has returned.
SeqNext ==
  \/ \E c \in Callers, cid \in CollectionIds, pid \in PerfumeIds :
       NoCallInFlight /\ AddIssue(c, cid, pid)
  \/ \E c \in Callers, fail \in BOOLEAN : ServeCheck(c, fail)
  \/ \E c \in Callers : ResumeCheck(c)
  \/ \E c \in Callers, fail \in BOOLEAN : ServeInsert(c, fail)
  \/ \E c \in Callers : ResumeInsert(c)
  \/ \E cid \in CollectionIds : GetCollectionItems(cid)

SpecAddSeq == InitAdd /\ [][SeqNext]_vars

\* The CollectionDetails screen over a seeded collection.
InitDetails ==
  SeededTable /\ AddInit /\ NavQuiet /\ CreateQuiet
  /\ DetInit /\ ProfQuiet /\ SearchQuiet /\ EditQuiet
  /\ ListQuiet /\ SortQuiet

SpecDetails == InitDetails /\ [][DetNext]_vars

\* The profile screen of profile.tsx while the user is on another tab, and
\* the one of ProfileScreen.js.
InitProfile ==
  /\ EmptyTable /\ AddInit /\ NavQuiet /\ CreateQuiet
  /\ DetQuiet /\ SearchQuiet /\ EditQuiet
  /\ ListQuiet /\ SortQuiet
  /\ ProfInit /\ focused = FALSE

SpecProfile == InitProfile /\ [][ProfNext]_vars

\* The same, where every remote call resolves and every continuation runs.
SpecProfileLive == SpecProfile /\ WF_vars(ProfRequests)

SpecProfileJs == InitProfile /\ [][ProfJsNext]_vars

\* The profile screen of profile.tsx, focused.
InitProfileFocus ==
  /\ EmptyTable /\ AddInit /\ NavQuiet /\ CreateQuiet
  /\ DetQuiet /\ SearchQuiet /\ EditQuiet
  /\ ListQuiet /\ SortQuiet
  /\ ProfInit /\ focused = TRUE

SpecProfileFocus == InitProfileFocus /\ [][ProfFocusNext]_vars

\* The search screen.
InitSearch ==
  EmptyTable /\ AddInit /\ NavQuiet /\ CreateQuiet
  /\ DetQuiet /\ ProfQuiet /\ SearchInit /\ EditQuiet
  /\ ListQuiet /\ SortQuiet

SpecSearch == InitSearch /\ [][SearchNext]_vars

SpecBaseline == InitSearch /\ [][BaselineNext]_vars

\* The profile details modal of a signed-in user with a profile.
InitEdit ==
  /\ EmptyTable /\ AddInit /\ NavQuiet /\ CreateQuiet
  /\ DetQuiet /\ SearchQuiet
  /\ ProfLoaded /\ EditInit /\ ListQuiet /\ SortQuiet

SpecEdit == InitEdit /\ [][EditNext]_vars

\* The profile view of a signed-in user with a profile and collections.
InitCreate ==
  /\ EmptyTable /\ AddInit /\ NavQuiet /\ DetQuiet /\ SearchQuiet
  /\ EditQuiet /\ ProfLoaded /\ CreateInit /\ ListQuiet /\ SortQuiet

SpecCreate == InitCreate /\ [][CreateNext]_vars

\* getUserCollections on any tables.
InitList ==
  /\ EmptyTable /\ AddInit /\ NavQuiet /\ CreateQuiet
  /\ DetQuiet /\ ProfQuiet /\ SearchQuiet /\ EditQuiet
  /\ ListInit /\ SortQuiet

SpecList == InitList /\ [][ListNext]_vars

\* sortItems on any list.
InitSort ==
  /\ EmptyTable /\ AddInit /\ NavQuiet /\ CreateQuiet
  /\ DetQuiet /\ ProfQuiet /\ SearchQuiet /\ EditQuiet
  /\ ListQuiet /\ SortInit

SpecSort == InitSort /\ [][SortNext]_vars

\* ------------------------------------------------------------------ claims
\* Number of rows of a pair in a listing.
ListedOf(cid, pid) ==
  Cardinality({k \in DOMAIN listed.rows :
                 listed.rows[k].collection_id = cid
                 /\ listed.rows[k].perfume_id = pid})

\* C1: sequential duplicate add.  When a call for a pair has returned a row
\* (it found no row and inserted one), every call for the same pair that
\* starts afterwards does not insert: it fails with the duplicate error
\* (unless its own pre-check request failed in transport), the table keeps
\* exactly one row for the pair, and a getCollectionItems made after the
\* second call lists the pair exactly once.
C1_SequentialDuplicateAdd ==
  \A i \in DOMAIN addLog : \A j \in DOMAIN addLog :
    (/\ i < j
     /\ addLog[i].result = "ok"
     /\ addLog[j].collection_id = addLog[i].collection_id
     /\ addLog[j].perfume_id = addLog[i].perfume_id)
    => /\ addLog[i].seen = 0
       /\ addLog[j].result # "ok"
       /\ addLog[j].checkCode # "transport" => addLog[j].result = "duplicate"
       /\ Cardinality(RowsOf(collection_items, addLog[i].collection_id,
                             addLog[i].perfume_id)) = 1
       /\ (listed.after >= j /\ listed.collection_id = addLog[i].collection_id)
            => ListedOf(addLog[i].collection_id, addLog[i].perfume_id) = 1

\* C1 witness: the first call returned the row, the second call for the same
\* pair failed with the duplicate error, and the listing made afterwards
\* holds one row.
C1_Witness ==
  /\ Len(addLog) >= 2
  /\ addLog[1].result = "ok"
  /\ addLog[2].result = "duplicate"
  /\ addLog[2].collection_id = addLog[1].collection_id
  /\ addLog[2].perfume_id = addLog[1].perfume_id
  /\ listed.after >= 2
  /\ listed.collection_id = addLog[1].collection_id
  /\ Len(listed.rows) = 1

\* C2: membership uniqueness.  At most one collection_items row per
\* (collection_id, perfume_id) pair in every reachable state, under any
\* interleaving of concurrent addPerfumeToCollection calls.
C2_MembershipUnique ==
  \A cid \in CollectionIds, pid \in PerfumeIds :
    Cardinality(RowsOf(collection_items, cid, pid)) <= 1

\* A step in which Promise.all of batch b settles with the given outcome.
BatchSettles(b, outcome) ==
  /\ b \in DOMAIN batches
  /\ batches[b].outcome = "pending"
  /\ batches'[b].outcome = outcome

\* C4: batch delete, all succeed.  Confirming a delete of N selected items
\* issues exactly N removePerfumeFromCollection calls, one per selected id;
\* Promise.all is fulfilled only when all N have succeeded, and the handler
\* then leaves a local list with none of the N ids, an empty selection and
\* modify mode off.
C4_BatchDeleteAllSucceed ==
  /\ [](\A b \in DOMAIN batches :
          /\ Len(batches[b].calls) = Cardinality(batches[b].selected)
          /\ {batches[b].calls[k] : k \in DOMAIN batches[b].calls}
               = batches[b].selected
          /\ DOMAIN batches[b].req = batches[b].selected
          /\ batches[b].outcome = "success"
               => \A i \in batches[b].selected : batches[b].req[i] = "resolved")
  /\ [][\A b \in DOMAIN batches :
          BatchSettles(b, "success")
          => /\ IdsOf(items') \cap batches[b].selected = {}
             /\ IdsOf(items') = IdsOf(batches[b].items) \ batches[b].selected
             /\ selectedItems' = {}
             /\ isModifyMode' = FALSE]_vars

\* C4 witness: a batch of two items succeeded, both rows are gone from the
\* table and from the local list, the selection is empty, modify mode off.
C4_Witness ==
  \E b \in DOMAIN batches :
    /\ batches[b].outcome = "success"
    /\ Cardinality(batches[b].selected) >= 2
    /\ IdsOf(items) \cap batches[b].selected = {}
    /\ selectedItems = {}
    /\ ~isModifyMode
    /\ \A r \in collection_items : r.id \notin batches[b].selected

\* Every request of batch b has settled on the client.
AllSettled(b) ==
  \A i \in DOMAIN batches[b].req : batches[b].req[i] \in {"resolved", "rejected"}

FlowBecomes(f, g) == flows' = (flows (-) SetToBag({f})) (+) SetToBag({g})

\* A step of flow f.
FlowActs(f) == CopiesIn(f, flows') < CopiesIn(f, flows)

\* A step in which flow f ends.
FlowEnds(f) == flows' = flows (-) SetToBag({f})

\* The two default collections of identity u, as the screen holds them.
AreDefaultsOf(cols, u) ==
  /\ Len(cols) = 2
  /\ cols[1].name = "My Collection"
  /\ cols[2].name = "Wishlist"
  /\ \A k \in 1..2 : /\ cols[k].is_default = TRUE
                     /\ cols[k].item_count = 0
                     /\ cols[k].user_id = u

\* C3: default collections on first load.  For a loadUserCollections run
\* whose list query returned zero rows: a createDefaultCollections request
\* that succeeds inserts exactly two rows for the identity, 'My Collection'
\* and 'Wishlist', both is_default; the run ends having inserted exactly
\* those two and with collections set to them, item_count 0.  (Only when
\* both of its createDefaultCollections requests fail does the run insert
\* nothing and end with collections = [].)
C3_DefaultCollectionsOnFirstLoad ==
  [][\A f \in InFlight :
       f.listed = "empty" =>
         /\ (f.pc = "list_answered" /\ FlowActs(f)) =>
              \E g \in BagToSet(flows') :
                g.pc = "create_sent" /\ g.user = f.user /\ FlowBecomes(f, g)
         /\ (f.pc = "create_sent"
               /\ \E g \in BagToSet(flows') :
                    g.pc = "create_answered" /\ g.ok /\ FlowBecomes(f, g))
            => LET new == collectionsTable' \ collectionsTable
               IN /\ Cardinality(new) = 2
                  /\ {r.name : r \in new} = {"My Collection", "Wishlist"}
                  /\ \A r \in new : r.user_id = f.user /\ r.is_default = TRUE
         /\ (f.pc = "create_answered" /\ FlowEnds(f))
            => IF f.ok
                 THEN /\ Cardinality(f.inserted) = 2
                      /\ collections' = f.rows
                      /\ AreDefaultsOf(collections', f.user)
                      /\ {collections'[k].id : k \in 1..2} = f.inserted
                 ELSE /\ f.inserted = {}
                      /\ collections' = <<>>]_vars

\* C3 witness: an identity that had no collections is signed in, the screen
\* holds its two defaults with item_count 0, and they are the identity's
\* only rows in the table.
C3_Witness ==
  /\ lastLoad.listed = "empty"
  /\ lastLoad.ok
  /\ user = lastLoad.user
  /\ AreDefaultsOf(collections, user)
  /\ {collections[1].id, collections[2].id} = lastLoad.inserted
  /\ {r.id : r \in {q \in collectionsTable : q.user_id = user}}
       = {collections[1].id, collections[2].id}

\* C6: sign-out clears loaded state.  Whenever the auth listener delivers a
\* null identity, the step leaves the screen with no collections and no
\* stored profile.
C6_SignOutClearsState ==
  [][(authEvents' = authEvents + 1 /\ user' = NullUser)
     => (collections' = <<>> /\ userProfile' = NullProfile)]_vars

\* C7: stale collection fetch after sign-out.  The collections state never
\* holds an identity's collections while the current identity is null or
\* another identity.
C7_NoStaleCollections ==
  \A k \in DOMAIN collections :
    user # NullUser /\ collections[k].user_id = user

\* C8: search debounce.  For a run of onChangeSearch inputs each less than
\* DebounceMs after the one before: while less than DebounceMs has passed
\* since the last input no timer of the run has called performSearch; once
\* DebounceMs has passed and no timer is pending, the run's timers have
\* made exactly one performSearch call, with the last input's text.
C8_SearchDebounce ==
  burst.n > 0 =>
    /\ Len(burst.calls) <= 1
    /\ sinceInput < DebounceMs => burst.calls = <<>>
    /\ (sinceInput >= DebounceMs /\ timers = {})
         => burst.calls = <<burst.last>>

\* C8 witness: three inputs, each less than DebounceMs after the one
\* before, then DebounceMs of quiet: one call, with the third text.
C8_Witness ==
  /\ burst.n = 3
  /\ sinceInput >= DebounceMs
  /\ timers = {}
  /\ burst.calls = <<burst.last>>
  /\ ~IsBlank(burst.last)
  /\ issued = 1

\* A step in which performSearch resumes with the response of request r.
Resumes(r) == r \in searchCalls /\ r \notin searchCalls'

\* C9: search response race.  Responses are applied in arrival order with
\* no staleness check: the response of a request becomes the results state
\* when it arrives, also when the response of a request issued later has
\* arrived before it.
C9_SearchResponseRace ==
  [][\A r \in searchCalls :
       (Resumes(r) /\ r.seq < resolved.newest)
       => /\ resolved'.last = r.seq
          /\ results' = resolved'.lastData]_vars

\* C9 witness: two searches were issued and the later one's response arrived
\* first; every response has been applied, and results holds the earlier
\* query's response, which is not the latest query's.
C9_Witness ==
  /\ issued >= 2
  /\ searchCalls = {}
  /\ resolved.newest = issued
  /\ resolved.last < resolved.newest
  /\ results = resolved.lastData
  /\ results # <<>>
  /\ resolved.newestData # <<>>
  /\ results # resolved.newestData

\* A step in which performSearch(query) is called: by a debounce timer that
\* expires, or with the text of the search field.
Performs(query) ==
  /\ callParity' # callParity
  /\ \/ \E t \in timers : t.left = 0 /\ t.text = query /\ timers' = timers \ {t}
     \/ timers' = timers /\ query = searchQuery

\* C10: empty query.  A performSearch call with an empty or whitespace-only
\* query sends no search request, leaves results = [], and leaves the
\* content area showing the baseline view, not the search-results list.
C10_EmptyQueryShowsBaseline ==
  [][\A query \in Texts :
       (IsBlank(query) /\ Performs(query))
       => /\ issued' = issued
          /\ searchCalls' = searchCalls
          /\ results' = <<>>
          /\ Shown' # "results"]_vars

\* C11: profile check outcome.  When checkProfileCompletion resumes after a
\* getUserProfile that did not throw: on not-found (null) it ends with
\* needsProfileCompletion true and loading false; on a profile found it
\* stores the profile, sets needsProfileCompletion false and goes on to
\* loadUserCollections for the same identity.  No checkProfileCompletion is
\* at its collection list request unless its step there stored the profile.
C11_ProfileCheckOutcome ==
  [][/\ \A f \in InFlight :
          (f.kind = "check" /\ f.pc = "profile_answered" /\ f.ok
             /\ FlowActs(f))
          => IF f.found
               THEN /\ userProfile' = [id |-> f.user]
                    /\ needsProfileCompletion' = FALSE
                    /\ FlowBecomes(f, [f EXCEPT !.pc = "list_sent"])
               ELSE /\ needsProfileCompletion' = TRUE
                    /\ loading' = FALSE
                    /\ FlowEnds(f)
     /\ \A g \in BagToSet(flows') :
          (g.kind = "check" /\ g.pc = "list_sent"
             /\ CopiesIn(g, flows') > CopiesIn(g, flows))
          => userProfile' = [id |-> g.user]]_vars

\* C11 witness: a checkProfileCompletion that found the profile has stored
\* it and has its collection list request in flight.
C11_Witness ==
  \E f \in InFlight :
    /\ f.kind = "check"
    /\ f.pc = "list_sent"
    /\ f.found
    /\ userProfile = [id |-> f.user]
    /\ needsProfileCompletion = FALSE

\* A checkProfileCompletion is running.
CheckRunning == \E f \in InFlight : f.kind = "check"

\* C12: the profile check never gets stuck.  Where every remote call
\* resolves, a running checkProfileCompletion leads to a state with none
\* running and loading false.  The step that ends one sets loading false and
\* leaves needsProfileCompletion true or a profile stored, whether the
\* profile was found or not and whether getUserProfile, getUserCollections
\* or createDefaultCollections failed; a getUserProfile that throws ends the
\* check with needsProfileCompletion true.
C12_ProfileCheckTerminates ==
  /\ CheckRunning ~> (~CheckRunning /\ loading = FALSE)
  /\ [][\A f \in InFlight :
          /\ (f.kind = "check" /\ FlowEnds(f))
             => /\ loading' = FALSE
                /\ needsProfileCompletion' = TRUE \/ userProfile' # NullProfile
          /\ (f.kind = "check" /\ f.pc = "profile_answered" /\ ~f.ok
                /\ FlowActs(f))
             => /\ needsProfileCompletion' = TRUE
                /\ loading' = FALSE
                /\ FlowEnds(f)]_vars

\* C12 witness: a checkProfileCompletion whose list query and both
\* createDefaultCollections requests failed has ended; loading is false and
\* the found profile is stored.
C12_Witness ==
  /\ ~CheckRunning
  /\ lastLoad.listed = "error"
  /\ ~lastLoad.ok
  /\ lastLoad.user = user
  /\ loading = FALSE
  /\ needsProfileCompletion = FALSE
  /\ userProfile = [id |-> user]

\* C13: the profile gates the collection features.  A profile that has been
\* found is a row of user_profiles, and rows of it are never deleted; so
\* every collection list query and every default-collection insert the
\* screen has in flight is for an identity that has a profile row, and the
\* collections view is rendered only for such an identity.
C13_ProfileGatesCollections ==
  /\ \A f \in InFlight :
       f.pc \in {"list_sent", "create_sent"} => f.user \in user_profiles
  /\ View = "profile" => user \in user_profiles

\* C14: the workflow is reset on re-login.  A profile of another identity
\* in userProfile is what an earlier session, ended by a sign-out, has left
\* there.  While the profile query that the delivery of the present identity
\* started has not completed, the screen then shows neither the completion
\* form nor the profile view.
C14_WorkflowResetOnReLogin ==
  \A f \in InFlight :
    (/\ f.kind = "check"
     /\ f.pc \in {"profile_sent", "profile_answered"}
     /\ f.user = user
     /\ userProfile # NullProfile
     /\ userProfile.id # user)
    => View \notin {"completion", "profile"}

\* A step of the Save button whose handleSaveProfile reaches its call of
\* validateUsername, with the trimmed username t.
ValidateCalled(t) ==
  /\ saves' = saves + 1
  /\ t = Trim(editedProfile.username)
  /\ user # NullUser /\ userProfile # NullProfile
  /\ t # <<>>
  /\ Trim(editedProfile.age) # <<>>
  /\ Trim(editedProfile.country) # <<>>
  /\ AgeAccepted(editedProfile.age)
  /\ t # profileDetails.username

\* C15: username validation.  validateUsername called with a username
\* shorter than 3 characters, longer than 20, or with a character that is
\* no letter, digit or underscore sets an error and sends no request; with
\* any other username it sends checkUsernameAvailability(username, user.id).
\* When that call returns, the username is accepted (no error, the save
\* goes on) exactly when it returned true, and is rejected with an error
\* when it returned false or threw.
C15_UsernameValidation ==
  [][/\ \A t \in UsernameTexts :
          ValidateCalled(t) =>
            IF \/ Len(t) < MinUsernameLength
               \/ Len(t) > MaxUsernameLength
               \/ \E i \in DOMAIN t : t[i] \notin Letters \cup Digits \cup {"_"}
              THEN /\ saveFlow' = saveFlow
                   /\ usernameError' # ""
                   /\ loading' = loading
              ELSE /\ saveFlow'.pc = "avail_sent"
                   /\ saveFlow'.username = t
                   /\ saveFlow'.user = user
     /\ (saveFlow.pc = "avail_answered" /\ saveFlow' # saveFlow) =>
          IF saveFlow.ok /\ saveFlow.available
            THEN saveFlow'.pc = "update_sent" /\ usernameError' = ""
            ELSE saveFlow'.pc = "idle" /\ usernameError' # ""]_vars

\* C15 witness: a new username of 20 letters was found available, and the
\* save has gone on to its update.
C15_Witness ==
  /\ saveFlow.pc = "update_sent"
  /\ saveFlow.username # profileDetails.username
  /\ Len(saveFlow.username) = MaxUsernameLength
  /\ saveFlow.available
  /\ usernameError = ""

\* The text is an integer numeral: digits only, white space around it aside.
IsIntegerText(t) ==
  /\ Trim(t) # <<>>
  /\ \A i \in DOMAIN Trim(t) : Trim(t)[i] \in Digits

\* C16: age validation.  A press of Save sends a request (the availability
\* check that precedes the update, or the update) only if the entered age
\* is an integer from 13 to 120.
C16_AgeValidation ==
  [][(saves' = saves + 1 /\ saveFlow'.pc # "idle")
     => /\ IsIntegerText(editedProfile.age)
        /\ ValueOf(Trim(editedProfile.age)) \in MinAge..MaxAge]_vars

\* The images of a collection's membership rows that have one, in row order.
ImagesInRowOrder(cid) ==
  LET rows == SelectSeq(joinItems,
                        LAMBDA m : m.collection_id = cid
                                   /\ m.perfume_image_url # NoImage)
  IN [k \in DOMAIN rows |-> rows[k].perfume_image_url]

\* C17: the collection listing's projection.  What getUserCollections
\* returned lists each collection of the identity once; a listed
\* collection's item_count is the number of its membership rows, and its
\* sample_images are the first min(4, n) of the n non-null perfume_image_url
\* values of those rows in row order, so at most min(4, item_count); the
\* collections with is_default come first and, among collections alike in
\* is_default, those created earlier come first.
C17_ListingProjection ==
  listing # NoListing =>
    LET rows == listing.rows
    IN /\ {rows[k].id : k \in DOMAIN rows}
            = {c.id : c \in {q \in joinCollections : q.user_id = listing.user}}
       /\ \A j, k \in DOMAIN rows : j # k => rows[j].id # rows[k].id
       /\ \A k \in DOMAIN rows :
            LET all == ImagesInRowOrder(rows[k].id)
                count == Cardinality({i \in DOMAIN joinItems :
                           joinItems[i].collection_id = rows[k].id})
            IN /\ rows[k].item_count = count
               /\ Len(rows[k].sample_images)
                    = (IF Len(all) < 4 THEN Len(all) ELSE 4)
               /\ rows[k].sample_images
                    = SubSeq(all, 1, Len(rows[k].sample_images))
               /\ Len(rows[k].sample_images) <= 4
               /\ Len(rows[k].sample_images) <= count
       /\ \A j, k \in DOMAIN rows :
            j < k => /\ rows[k].is_default => rows[j].is_default
                     /\ rows[j].is_default = rows[k].is_default
                          => rows[j].created_at <= rows[k].created_at

\* C17 witness: a listed collection of five rows whose second has no image
\* and that comes after a default collection created later: it shows the
\* images of rows 1, 3, 4 and 5.
C17_Witness ==
  /\ listing.user = "A"
  /\ Len(listing.rows) = 2
  /\ listing.rows[1].is_default /\ ~listing.rows[2].is_default
  /\ listing.rows[1].created_at > listing.rows[2].created_at
  /\ listing.rows[1].item_count = 0
  /\ listing.rows[2].item_count = 5
  /\ listing.rows[2].sample_images = <<1, 3, 4, 5>>

\* The key by which sortItems orders a row under a sort option: the place of
\* the name or of the brand (none taken as '') in the alphabet, or the
\* creation time negated (newer first).
SortKey(row, sortOption) ==
  LET place(s) == CHOOSE k \in DOMAIN Collation : Collation[k] = s
  IN IF sortOption = "name" THEN place(row.perfume_name)
     ELSE IF sortOption = "brand"
       THEN place(IF row.perfume_brand = NoBrand THEN "" ELSE row.perfume_brand)
     ELSE 0 - row.created_at

\* C18: sort.  sortedItems is a permutation of the list that was sorted,
\* ascending by perfume_name for 'name', ascending by perfume_brand (null as
\* '') for 'brand' and descending by created_at for 'recently_added'; rows
\* with equal keys are in their input order; and no step changes the input
\* list.
C18_SortItems ==
  /\ [](/\ Len(sortedItems) = Len(itemsToSort)
        /\ \A k \in DOMAIN itemsToSort :
             Cardinality({j \in DOMAIN sortedItems :
                            sortedItems[j] = itemsToSort[k]}) = 1
        /\ \A j, k \in DOMAIN sortedItems :
             j < k =>
               /\ SortKey(sortedItems[j], sortBy) <= SortKey(sortedItems[k], sortBy)
               /\ SortKey(sortedItems[j], sortBy) = SortKey(sortedItems[k], sortBy)
                    => sortedItems[j].id < sortedItems[k].id)
  /\ [][itemsToSort' = itemsToSort]_vars

\* C18 witness: three rows sorted by brand, the first with brand B, the
\* second with no brand and the third with the brand '': the second and the
\* third come first, in that order.
C18_Witness ==
  /\ sortBy = "brand"
  /\ Len(itemsToSort) = 3
  /\ itemsToSort[1].perfume_brand = "B"
  /\ itemsToSort[2].perfume_brand = NoBrand
  /\ itemsToSort[3].perfume_brand = ""
  /\ <<sortedItems[1].id, sortedItems[2].id, sortedItems[3].id>> = <<2, 3, 1>>

\* The remote operations of the profile screen's loads, by the pc of their
\* answer, and the pc at which each is sent.
SentPc(answered) ==
  CASE answered = "profile_answered" -> "profile_sent"
    [] answered = "list_answered" -> "list_sent"
    [] answered = "create_answered" -> "create_sent"

\* C19: no automatic retry.  The step that resumes a flow after a remote
\* operation of it has failed does not send that operation again.
C19_NoAutomaticRetry ==
  [][\A f \in InFlight :
       (/\ f.pc \in {"profile_answered", "list_answered", "create_answered"}
        /\ ~f.ok
        /\ FlowActs(f))
       => ~\E g \in BagToSet(flows') :
             /\ g.pc = SentPc(f.pc)
             /\ g.user = f.user
             /\ CopiesIn(g, flows') > CopiesIn(g, flows)]_vars

\* C20: the initial identity fetch fails.  The .then of a getUser() whose
\* request failed sets user to null and loading to false, and where every
\* continuation runs a failed getUser() leads to loading being false.
C20_InitialFetchFailure ==
  /\ [][\A f \in InFlight :
          (f.pc = "getUser_answered" /\ ~f.ok /\ FlowActs(f))
          => /\ user' = NullUser
             /\ loading' = FALSE
             /\ FlowEnds(f)]_vars
  /\ (\E f \in InFlight : f.pc = "getUser_answered" /\ ~f.ok)
       ~> (loading = FALSE)

\* C20 witness: the provider holds a session, the getUser() request failed
\* and nothing else happened: the sign-in view is shown.
C20_Witness ==
  /\ session # NullUser
  /\ authEvents = 0
  /\ flows = EmptyBag
  /\ user = NullUser
  /\ loading = FALSE
  /\ View = "signin"

\* C21: the baseline load guard.  Every refreshRandom invocation sends
\* exactly one getRandomPerfumes request.  A step that changes
\* perfumes.length makes the effect call loadRandom unforced, and that call
\* sends a request exactly if the baseline is not loaded (initializedRef
\* false or perfumes empty).  No other step sends one; so while refreshRandom
\* has never been invoked, no request is sent once a non-empty sample has
\* been loaded.
C21_BaselineLoadGuard ==
  [][/\ fetches' \in {fetches, fetches + 1}
     /\ refreshes' = refreshes + 1 => fetches' = fetches + 1
     /\ refreshes' = refreshes
          => (fetches' = fetches + 1
                <=> /\ Len(perfumes') # Len(perfumes)
                    /\ (~initializedRef' \/ perfumes' = <<>>))
     /\ (refreshes' = 0 /\ initializedRef /\ perfumes # <<>>)
          => fetches' = fetches]_vars

\* C21 witness: the mount's load and two refreshes have each sent one
\* request, all three have resolved, and the baseline is loaded.
C21_Witness ==
  /\ refreshes = 2
  /\ fetches = 3
  /\ randomFlow = 0
  /\ initializedRef
  /\ perfumes # <<>>
  /\ ~searchLoading
  /\ ~refreshing

\* The form passes handleSaveProfile's checks before the username test.
FieldsAccepted ==
  /\ user # NullUser
  /\ userProfile # NullProfile
  /\ Trim(editedProfile.username) # <<>>
  /\ Trim(editedProfile.age) # <<>>
  /\ Trim(editedProfile.country) # <<>>
  /\ AgeAccepted(editedProfile.age)

\* C22: profile edit re-validation.  A Save press runs validateUsername
\* (sets usernameError, or sends the availability request) only when the
\* trimmed username of the form differs from the stored profile's, and no
\* availability request is sent otherwise.  When it differs and validation
\* fails, locally or at the availability check, no updateUserProfile
\* request is sent and the stored profile and its row stay as they were.
\* When it is the same and the other fields are accepted, the press sends
\* the update at once.  An update is sent in no other way than by such a
\* press or after an availability check that passed.
C22_EditRevalidation ==
  [][LET pressed == saves' = saves + 1
         typed == Trim(editedProfile.username)
         changed == typed # profileDetails.username
         kept == /\ profileRows' = profileRows
                 /\ profileDetails' = profileDetails
                 /\ userProfile' = userProfile
     IN /\ (saveFlow'.pc = "avail_sent" /\ saveFlow.pc # "avail_sent")
             => pressed /\ changed
        /\ (pressed /\ usernameError' # usernameError) => changed
        /\ (pressed /\ FieldsAccepted /\ changed /\ LocalError(typed) # "")
             => saveFlow' = IdleSave /\ kept
        /\ (saveFlow.pc = "avail_answered" /\ saveFlow' # saveFlow
              /\ ~(saveFlow.ok /\ saveFlow.available))
             => saveFlow' = IdleSave /\ kept
        /\ (pressed /\ FieldsAccepted /\ ~changed)
             => saveFlow'.pc = "update_sent" /\ saveFlow'.username = typed
        /\ (saveFlow'.pc = "update_sent" /\ saveFlow.pc # "update_sent")
             => \/ pressed /\ ~changed
                \/ /\ saveFlow.pc = "avail_answered"
                   /\ saveFlow.ok /\ saveFlow.available]_vars

\* C22 witness: a save with the username unchanged has updated the age
\* without a check of the username, and a second save, with the username
\* changed to one that is taken, was refused and left the profile alone.
C22_Witness ==
  /\ saves = 2
  /\ saveFlow = IdleSave
  /\ usernameError = "Username is already taken"
  /\ profileDetails.username = ProfileOfA.username
  /\ profileDetails.age # ProfileOfA.age
  /\ profileRows["A"] = profileDetails

\* C23: create-collection validation.  A handleCreateCollection call with
\* no current user, or with a name that is empty after trimming, sends no
\* request and leaves collections, the modal's visibility and the drafts
\* (and loading) as they were.  Any other call sends one createCollection
\* request, for the current user and with the trimmed name, and starts
\* nothing else; and no createCollection request is sent in another way.
C23_CreateValidation ==
  [][LET called == creates' = creates + 1
         refused == user = NullUser \/ Trim(newCollectionName) = <<>>
     IN /\ (called /\ refused)
             => UNCHANGED <<createFlow, flows, collections, collectionsTable,
                            showNewCollectionModal, newCollectionName,
                            newCollectionDescription, loading>>
        /\ (called /\ ~refused)
             => /\ createFlow.pc = "idle"
                /\ createFlow'.pc = "insert_sent"
                /\ createFlow'.user = user
                /\ createFlow'.name = Trim(newCollectionName)
                /\ createFlow'.name # <<>>
                /\ flows' = flows
        /\ (createFlow'.pc = "insert_sent" /\ createFlow.pc # "insert_sent")
             => called /\ ~refused]_vars

\* C23 witness: of two calls one, with the name ' O ' or 'O', has inserted
\* the collection 'O' and the other has inserted nothing; the list is
\* refreshed, the modal is closed and the drafts are cleared.
C23_Witness ==
  /\ creates = 2
  /\ createFlow = IdleCreate
  /\ Cardinality({c \in collectionsTable : ~c.is_default}) = 1
  /\ \E c \in collectionsTable : ~c.is_default /\ c.name = <<"O">>
  /\ \E k \in DOMAIN collections : collections[k].id = 3
  /\ ~showNewCollectionModal
  /\ newCollectionName = <<>>
  /\ ~loading

\* C24: the selection sub-state of the collection details screen.  The
\* selection is empty whenever modify mode is off: leaving modify mode
\* clears it, entering starts from the empty set, and the selection changes
\* to a non-empty set only in modify mode and then by one id of the list
\* toggled.  Toggling an id twice gives back the set.  Delete requests are
\* sent only by the step in which the dialog's Delete option is chosen, one
\* per id the dialog was opened with.
C24_SelectionSubState ==
  /\ [](~isModifyMode => selectedItems = {})
  /\ [](\A itemId \in IdsOf(items) :
          Toggled(Toggled(selectedItems, itemId), itemId) = selectedItems)
  /\ [][/\ (isModifyMode /\ ~isModifyMode') => selectedItems' = {}
        /\ (~isModifyMode /\ isModifyMode') => selectedItems' = {}
        /\ (selectedItems' # selectedItems /\ selectedItems' # {})
             => /\ isModifyMode /\ isModifyMode'
                /\ \E itemId \in IdsOf(items) :
                     /\ selectedItems' = Toggled(selectedItems, itemId)
                     /\ Toggled(selectedItems', itemId) = selectedItems
        /\ CallsIn(batches') # CallsIn(batches)
             => /\ dialog.open
                /\ ~dialog'.open
                /\ Len(batches') = Len(batches) + 1
                /\ batches'[Len(batches')].calls
                     = ArrayFrom(dialog.selectedItems)
        /\ collection_items' # collection_items
             => \E b \in DOMAIN batches : \E itemId \in DOMAIN batches[b].req :
                  /\ batches[b].req[itemId] = "sent"
                  /\ batches'[b].req[itemId] = "deleted"]_vars

\* C24 witness: two items were selected and their deletion confirmed; with
\* the requests still in flight the Done button has left modify mode and
\* cleared the selection.
C24_Witness ==
  /\ Len(batches) = 1
  /\ batches[1].outcome = "pending"
  /\ Cardinality(batches[1].selected) = 2
  /\ \A itemId \in batches[1].selected : batches[1].req[itemId] = "sent"
  /\ ~isModifyMode
  /\ selectedItems = {}

\* C25: the ensure-defaults fallback fails.  The step in which
\* loadUserCollections resumes after its fallback createDefaultCollections
\* (the one in its catch block) has failed sets collections to the empty
\* list and ends the run without an error: a checkProfileCompletion that
\* awaited it ends in the same step by its normal path, setting loading to
\* false and leaving needsProfileCompletion and the stored profile as they
\* were.
C25_FallbackFailure ==
  [][\A f \in InFlight :
       (/\ f.pc = "create_answered"
        /\ ~f.ok
        /\ f.fallback
        /\ FlowActs(f))
       => /\ collections' = <<>>
          /\ FlowEnds(f)
          /\ lastLoad' = Ended(f)
          /\ needsProfileCompletion' = needsProfileCompletion
          /\ userProfile' = userProfile
          /\ f.kind = "check" => loading' = FALSE]_vars

\* C25 witness: the list query of a signed-in user's check found no
\* collection, createDefaultCollections failed in the try block and again
\* in the catch block; the check has ended with the profile view shown and
\* no collections.
C25_Witness ==
  /\ flows = EmptyBag
  /\ user # NullUser
  /\ lastLoad = [user |-> user, listed |-> "empty", ok |-> FALSE,
                 inserted |-> {}]
  /\ collections = <<>>
  /\ View = "profile"
  /\ userProfile = [id |-> user]

\* C26: default collections are bounded.  For every identity the
\* collections table holds at most two rows with is_default true.
C26_DefaultCollectionsBounded ==
  \A u \in Identities :
    Cardinality({c \in collectionsTable : c.user_id = u /\ c.is_default}) <= 2

\* C27: duplicate pre-check with several existing rows.  A call of
\* addPerfumeToCollection sends its insert only when the table held no row
\* for its (collection_id, perfume_id) pair when the pre-check was served;
\* with one row, and with two or more rows, it performs no insert.
C27_NoInsertOverExistingRows ==
  \A c \in Callers :
    addCall[c].pc \in {"insert_sent", "insert_answered"}
      => addCall[c].seen = 0

\* C28: the identity state follows the latest auth event.  Once the auth
\* listener has delivered an event, user is the identity of the latest
\* event (session, which only the listener's events change here); the
\* response of the initial getUser() does not set it to anything else.
C28_UserFollowsLatestAuthEvent ==
  authEvents > 0 => user = session

\* C29: the searching indicator.  In every reachable state searching is
\* true while at least one remote search request of performSearch is in
\* flight, and false when none is, however the calls overlap and resolve.
C29_SearchingWhileInFlight ==
  searching <=> (searchCalls # {})

\* App: the navigation between the two tabs and the two detail views.
InitNav ==
  /\ EmptyTable /\ AddInit /\ NavInit /\ CreateQuiet
  /\ DetQuiet /\ ProfQuiet /\ SearchQuiet /\ EditQuiet
  /\ ListQuiet /\ SortQuiet

SpecNav == InitNav /\ [][NavNext]_vars

\* C30: tab switching resets the detail views.  After a handleTabChange
\* that changes the active tab, selectedPerfumeId and selectedCollection are
\* both null and App shows the screen of the new tab, whatever the
\* navigation state the tab was pressed in.
C30_TabChangeResetsDetailViews ==
  [][activeTab' # activeTab
       => /\ selectedPerfumeId' = NoPerfume
          /\ selectedCollection' = NoCollection
          /\ Screen' = TabScreen(activeTab')]_vars

====
